---- MODULE Spec2Model ----
(***************************************************************************)
(* Session segmentation of chrono-server: the boundary decision            *)
(* (SessionBoundaryService.shouldMergeEvents) and the aggregation pass     *)
(* (SessionsService.aggregateToSessions).                                  *)
(*                                                                         *)
(* Conventions.  Timestamps and durations are whole seconds.  A confidence *)
(* is an integer number of 1/100000ths, so 1.0 is 100000, 0.7 is 70000 and *)
(* 0.69999 is 69999.  A JavaScript string on which the code does character *)
(* work (toLowerCase, includes, a regular expression) is kept as a TLA+    *)
(* string in the state and looked up in Chars for its characters.  NULL    *)
(* stands for null and undefined.                                          *)
(***************************************************************************)
EXTENDS Integers, Sequences, FiniteSets, TLC

VARIABLES
  aiAvailable,      \* aiService.isModelAvailable("claude-3-5-haiku"), fixed at process start
  categoryStore,    \* rows of app_categories and domain_categories
  categoryLookup,   \* SessionBoundaryService.categoryLookup (NULL before any refresh)
  aiDecisionCache,  \* module-level Map: cache key -> BoundaryDecision
  suggestions,      \* rows of category_suggestions
  rawEvents,        \* the batch, as far as the loop has read it (rawEvents[1..i])
  sessions,         \* the output list of aggregateToSessions
  currentSession,   \* the open accumulator, or NULL
  nextUuid,         \* number of randomUUID() draws so far
  call,             \* the shouldMergeEvents call in flight or last returned
  pc,               \* where the run is
  snapshot,         \* the lookup this run's refresh built (history)
  previous,         \* batch and output of the run before this one, when it is a re-run
  decided,          \* <<cache key, decision>> of every call that returned past the cache read
  summary,          \* the DailySessionSummary getDailySessions returned
  members,          \* history: members[k] = the events sessions[k] was made of
  recorders,        \* the createOrUpdateSuggestion calls of concurrent runs, in flight
  ingested,         \* number of rows of events for the (device, date)
  job,              \* the BullMQ job with id sessions-<deviceId>-<date>
  dailyRow,         \* the row of daily_sessions for the (device, date)
  response,         \* the last answer of GET /api/stats/sessions/:date
  contexts,         \* the contexts of an accumulator and of the session made of it
  callers,          \* the queueSessionAggregation calls of concurrent requests, in flight
  queue,            \* the state of every job of the session queue for the (device, date)
  workers,          \* what the two slots of the session worker are doing
  dailySessions     \* the rows of daily_sessions for the (device, date)

vars == <<aiAvailable, categoryStore, categoryLookup, aiDecisionCache, suggestions,
          rawEvents, sessions, currentSession, nextUuid, call, pc,
          snapshot, previous, decided, summary, members,
          recorders, ingested, job, dailyRow, response,
          contexts, callers, queue, workers, dailySessions>>

\* the variables of one aggregation run and its history
runVars ==
  <<aiAvailable, categoryStore, categoryLookup, aiDecisionCache, rawEvents, sessions,
    currentSession, nextUuid, call, pc, snapshot, previous, decided, summary, members>>

\* the events and daily_sessions tables, the session queue and the answers
\* of the sessions endpoint
jobVars == <<ingested, job, dailyRow, response>>

\* the session queue with all its jobs, the calls that add to it, the slots
\* of the worker and the rows they write
queueVars == <<callers, queue, workers, dailySessions>>

NULL == "<null>"
RAISE == "<raise>"
\* categoryLookup before the first refresh
NoLookup == [loaded |-> FALSE]
\* currentSession = null
NoSession == [open |-> FALSE]
\* no run came before this one
NoRun == [none |-> TRUE]
\* no summary returned yet
NoSummary == [none |-> TRUE]
\* sessionQueue.getJob(jobId) finds nothing
NoJob == [state |-> "none"]
\* no row of daily_sessions for the (device, date)
NoRow == [stored |-> FALSE]
\* no request answered yet
NoResponse == [status |-> 0]

(***************************************************************************)
(* Strings as character sequences                                          *)
(***************************************************************************)
Chars ==
  ("Visual Studio Code" :> <<"V", "i", "s", "u", "a", "l", " ", "S", "t", "u", "d", "i", "o", " ", "C", "o", "d", "e">>) @@
  ("Code" :> <<"C", "o", "d", "e">>) @@
  ("Cursor" :> <<"C", "u", "r", "s", "o", "r">>) @@
  ("Xcode" :> <<"X", "c", "o", "d", "e">>) @@
  ("IntelliJ IDEA" :> <<"I", "n", "t", "e", "l", "l", "i", "J", " ", "I", "D", "E", "A">>) @@
  ("WebStorm" :> <<"W", "e", "b", "S", "t", "o", "r", "m">>) @@
  ("PyCharm" :> <<"P", "y", "C", "h", "a", "r", "m">>) @@
  ("Ghostty" :> <<"G", "h", "o", "s", "t", "t", "y">>) @@
  ("Terminal" :> <<"T", "e", "r", "m", "i", "n", "a", "l">>) @@
  ("iTerm2" :> <<"i", "T", "e", "r", "m", "2">>) @@
  ("Alacritty" :> <<"A", "l", "a", "c", "r", "i", "t", "t", "y">>) @@
  ("Hyper" :> <<"H", "y", "p", "e", "r">>) @@
  ("Warp" :> <<"W", "a", "r", "p">>) @@
  ("Kitty" :> <<"K", "i", "t", "t", "y">>) @@
  ("Bruno" :> <<"B", "r", "u", "n", "o">>) @@
  ("Postman" :> <<"P", "o", "s", "t", "m", "a", "n">>) @@
  ("Insomnia" :> <<"I", "n", "s", "o", "m", "n", "i", "a">>) @@
  ("Figma" :> <<"F", "i", "g", "m", "a">>) @@
  ("Sketch" :> <<"S", "k", "e", "t", "c", "h">>) @@
  ("Adobe XD" :> <<"A", "d", "o", "b", "e", " ", "X", "D">>) @@
  ("Photoshop" :> <<"P", "h", "o", "t", "o", "s", "h", "o", "p">>) @@
  ("Illustrator" :> <<"I", "l", "l", "u", "s", "t", "r", "a", "t", "o", "r">>) @@
  ("InDesign" :> <<"I", "n", "D", "e", "s", "i", "g", "n">>) @@
  ("Slack" :> <<"S", "l", "a", "c", "k">>) @@
  ("Discord" :> <<"D", "i", "s", "c", "o", "r", "d">>) @@
  ("Teams" :> <<"T", "e", "a", "m", "s">>) @@
  ("Zoom" :> <<"Z", "o", "o", "m">>) @@
  ("Firefox" :> <<"F", "i", "r", "e", "f", "o", "x">>) @@
  ("Chrome" :> <<"C", "h", "r", "o", "m", "e">>) @@
  ("Safari" :> <<"S", "a", "f", "a", "r", "i">>) @@
  ("Edge" :> <<"E", "d", "g", "e">>) @@
  ("Brave" :> <<"B", "r", "a", "v", "e">>) @@
  ("Arc" :> <<"A", "r", "c">>) @@
  ("Google Chrome" :> <<"G", "o", "o", "g", "l", "e", " ", "C", "h", "r", "o", "m", "e">>) @@
  ("Notes" :> <<"N", "o", "t", "e", "s">>) @@
  ("Visual Studio" :> <<"V", "i", "s", "u", "a", "l", " ", "S", "t", "u", "d", "i", "o">>) @@
  ("github.com" :> <<"g", "i", "t", "h", "u", "b", ".", "c", "o", "m">>) @@
  ("githubusercontent.com" :> <<"g", "i", "t", "h", "u", "b", "u", "s", "e", "r", "c", "o", "n", "t", "e", "n", "t", ".", "c", "o", "m">>) @@
  ("github.io" :> <<"g", "i", "t", "h", "u", "b", ".", "i", "o">>) @@
  ("gist.github.com" :> <<"g", "i", "s", "t", ".", "g", "i", "t", "h", "u", "b", ".", "c", "o", "m">>) @@
  ("google.com" :> <<"g", "o", "o", "g", "l", "e", ".", "c", "o", "m">>) @@
  ("googleapis.com" :> <<"g", "o", "o", "g", "l", "e", "a", "p", "i", "s", ".", "c", "o", "m">>) @@
  ("googleusercontent.com" :> <<"g", "o", "o", "g", "l", "e", "u", "s", "e", "r", "c", "o", "n", "t", "e", "n", "t", ".", "c", "o", "m">>) @@
  ("stackoverflow.com" :> <<"s", "t", "a", "c", "k", "o", "v", "e", "r", "f", "l", "o", "w", ".", "c", "o", "m">>) @@
  ("stackexchange.com" :> <<"s", "t", "a", "c", "k", "e", "x", "c", "h", "a", "n", "g", "e", ".", "c", "o", "m">>) @@
  ("askubuntu.com" :> <<"a", "s", "k", "u", "b", "u", "n", "t", "u", ".", "c", "o", "m">>) @@
  ("serverfault.com" :> <<"s", "e", "r", "v", "e", "r", "f", "a", "u", "l", "t", ".", "c", "o", "m">>) @@
  ("amazon.com" :> <<"a", "m", "a", "z", "o", "n", ".", "c", "o", "m">>) @@
  ("aws.amazon.com" :> <<"a", "w", "s", ".", "a", "m", "a", "z", "o", "n", ".", "c", "o", "m">>) @@
  ("console.aws.amazon.com" :> <<"c", "o", "n", "s", "o", "l", "e", ".", "a", "w", "s", ".", "a", "m", "a", "z", "o", "n", ".", "c", "o", "m">>) @@
  ("microsoft.com" :> <<"m", "i", "c", "r", "o", "s", "o", "f", "t", ".", "c", "o", "m">>) @@
  ("azure.com" :> <<"a", "z", "u", "r", "e", ".", "c", "o", "m">>) @@
  ("live.com" :> <<"l", "i", "v", "e", ".", "c", "o", "m">>) @@
  ("office.com" :> <<"o", "f", "f", "i", "c", "e", ".", "c", "o", "m">>) @@
  ("www.example.com" :> <<"w", "w", "w", ".", "e", "x", "a", "m", "p", "l", "e", ".", "c", "o", "m">>) @@
  ("example.com" :> <<"e", "x", "a", "m", "p", "l", "e", ".", "c", "o", "m">>) @@
  ("www." :> <<"w", "w", "w", ".">>) @@
  ("*.github.com" :> <<"*", ".", "g", "i", "t", "h", "u", "b", ".", "c", "o", "m">>) @@
  ("*example.com" :> <<"*", "e", "x", "a", "m", "p", "l", "e", ".", "c", "o", "m">>) @@
  ("(" :> <<"(">>) @@
  ("hub.com" :> <<"h", "u", "b", ".", "c", "o", "m">>) @@
  ("" :> <<>>)

UpperToLower ==
  ("A" :> "a") @@
  ("B" :> "b") @@
  ("C" :> "c") @@
  ("D" :> "d") @@
  ("E" :> "e") @@
  ("F" :> "f") @@
  ("G" :> "g") @@
  ("H" :> "h") @@
  ("I" :> "i") @@
  ("J" :> "j") @@
  ("K" :> "k") @@
  ("L" :> "l") @@
  ("M" :> "m") @@
  ("N" :> "n") @@
  ("O" :> "o") @@
  ("P" :> "p") @@
  ("Q" :> "q") @@
  ("R" :> "r") @@
  ("S" :> "s") @@
  ("T" :> "t") @@
  ("U" :> "u") @@
  ("V" :> "v") @@
  ("W" :> "w") @@
  ("X" :> "x") @@
  ("Y" :> "y") @@
  ("Z" :> "z")

CharsOf(s) == Chars[s]

LowerChar(c) == IF c \in DOMAIN UpperToLower THEN UpperToLower[c] ELSE c

\* String.prototype.toLowerCase
ToLowerCase(cs) == [k \in 1..Len(cs) |-> LowerChar(cs[k])]

\* String.prototype.includes: t occurs in s as a contiguous run
Includes(s, t) ==
  \E k \in 0..(Len(s) - Len(t)) : SubSeq(s, k + 1, k + Len(t)) = t

StartsWith(s, t) == Len(s) >= Len(t) /\ SubSeq(s, 1, Len(t)) = t

\* JavaScript truthiness of a string-or-null value
Truthy(x) == x # NULL /\ x # ""

\* The string whose characters are cs
Str(cs) == CHOOSE s \in DOMAIN Chars : Chars[s] = cs

(***************************************************************************)
(* Constants of the boundary service                                       *)
(***************************************************************************)
RELATED_APP_GROUPS ==
  << <<"Visual Studio Code", "Code", "Cursor", "Xcode", "IntelliJ IDEA", "WebStorm", "PyCharm">>,
     <<"Ghostty", "Terminal", "iTerm2", "Alacritty", "Hyper", "Warp", "Kitty">>,
     <<"Bruno", "Postman", "Insomnia">>,
     <<"Figma", "Sketch", "Adobe XD">>,
     <<"Photoshop", "Illustrator", "InDesign">>,
     <<"Slack", "Discord", "Teams", "Zoom">>,
     <<"Firefox", "Chrome", "Safari", "Edge", "Brave", "Arc">> >>

browsers == <<"Firefox", "Chrome", "Safari", "Edge", "Brave", "Arc">>

relatedGroups ==
  << <<"github.com", "githubusercontent.com", "github.io", "gist.github.com">>,
     <<"google.com", "googleapis.com", "googleusercontent.com">>,
     <<"stackoverflow.com", "stackexchange.com", "askubuntu.com", "serverfault.com">>,
     <<"amazon.com", "aws.amazon.com", "console.aws.amazon.com">>,
     <<"microsoft.com", "azure.com", "live.com", "office.com">> >>

IDLE_THRESHOLD == 120
MAX_SESSION_GAP_TenMinutes == 10 * 60
MAX_SESSION_GAP == 300

\* line 35, in hours
CACHE_TTL == 24
\* 0.7, the merge threshold of aggregateToSessions
MERGE_CONFIDENCE == 70000
\* 0.6, the least confidence at which a suggestion is stored
SUGGEST_CONFIDENCE == 60000
\* 0.6, the confidence of an AI answer that carries no number
DEFAULT_AI_CONFIDENCE == 60000
\* event.duration ?? 5
DEFAULT_DURATION == 5

(***************************************************************************)
(* URLs and domains (contextExtractor)                                     *)
(***************************************************************************)
\* new URL(url).hostname for the URL strings of the model; RAISE where the
\* constructor throws
UrlHostname ==
  ("https://github.com/a/b" :> "github.com") @@
  ("https://github.com/a/b/issues" :> "github.com") @@
  ("https://gist.github.com/x" :> "gist.github.com") @@
  ("https://www.example.com/" :> "www.example.com") @@
  ("github.com/a/b" :> RAISE) @@
  ("example.com/x" :> RAISE)

\* hostname.replace(/^www\./, "")
StripWww(hostname, h, www) ==
  IF StartsWith(h, www) THEN Str(SubSeq(h, Len(www) + 1, Len(h))) ELSE hostname

extractDomainAndPath(url) ==
  IF UrlHostname[url] = RAISE THEN NULL
  ELSE StripWww(UrlHostname[url], CharsOf(UrlHostname[url]), CharsOf("www."))

extractDomain(url) == IF ~Truthy(url) THEN NULL ELSE extractDomainAndPath(url)

DomainInGroup(d, group) ==
  \E k \in 1..Len(group) :
    \/ Includes(d, CharsOf(group[k]))
    \/ Includes(CharsOf(group[k]), d)

RelatedDomains(domain1, domain2) ==
  IF ~Truthy(domain1) \/ ~Truthy(domain2) THEN FALSE
  ELSE IF domain1 = domain2 THEN TRUE
  ELSE \E g \in 1..Len(relatedGroups) :
         \A d \in {domain1, domain2} : DomainInGroup(CharsOf(d), relatedGroups[g])

areUrlsRelated(url1, url2) ==
  IF ~Truthy(url1) \/ ~Truthy(url2) THEN FALSE
  ELSE RelatedDomains(extractDomain(url1), extractDomain(url2))

(***************************************************************************)
(* Application names (sessionBoundary)                                     *)
(***************************************************************************)
AppInGroup(app, group) ==
  \E k \in 1..Len(group) :
    \/ Includes(app, ToLowerCase(CharsOf(group[k])))
    \/ Includes(ToLowerCase(CharsOf(group[k])), app)

areAppsRelated(app1, app2) ==
  \E g \in 1..Len(RELATED_APP_GROUPS) :
    \A app \in {app1, app2} : AppInGroup(ToLowerCase(CharsOf(app)), RELATED_APP_GROUPS[g])

isBrowser(appName) ==
  \E k \in 1..Len(browsers) :
    Includes(ToLowerCase(CharsOf(appName)), ToLowerCase(CharsOf(browsers[k])))

(***************************************************************************)
(* Category lookup                                                         *)
(***************************************************************************)
MapSet(m, k, v) == [x \in (DOMAIN m) \cup {k} |-> IF x = k THEN v ELSE m[x]]
MapGet(m, k) == IF k \in DOMAIN m THEN m[k] ELSE NULL
EmptyMap == [x \in {} |-> NULL]

RECURSIVE AppsMap(_, _)
AppsMap(rows, n) ==
  IF n = 0 THEN EmptyMap
  ELSE MapSet(AppsMap(rows, n - 1), rows[n].appName, rows[n].category)

RECURSIVE BundlesMap(_, _)
BundlesMap(rows, n) ==
  IF n = 0 THEN EmptyMap
  ELSE IF Truthy(rows[n].bundleId)
       THEN MapSet(BundlesMap(rows, n - 1), rows[n].bundleId, rows[n].category)
       ELSE BundlesMap(rows, n - 1)

RECURSIVE DomainsMap(_, _)
DomainsMap(rows, n) ==
  IF n = 0 THEN EmptyMap
  ELSE MapSet(DomainsMap(rows, n - 1), rows[n].domain, rows[n].category)

RECURSIVE DomainPatterns(_, _)
DomainPatterns(rows, n) ==
  IF n = 0 THEN <<>>
  ELSE IF Truthy(rows[n].pattern)
       THEN Append(DomainPatterns(rows, n - 1),
                   [pattern |-> rows[n].pattern, category |-> rows[n].category])
       ELSE DomainPatterns(rows, n - 1)

getCategoryLookupMaps(store) ==
  [apps |-> AppsMap(store.apps, Len(store.apps)),
   bundles |-> BundlesMap(store.apps, Len(store.apps)),
   domains |-> DomainsMap(store.domains, Len(store.domains)),
   domainPatterns |-> DomainPatterns(store.domains, Len(store.domains))]

\* new RegExp throws a SyntaxError on the translated pattern.  The patterns
\* of the model are made of literal characters, ".", "*" and "(":  of these
\* only an unclosed "(" makes the expression invalid.
RegexSyntaxError(p) == \E k \in 1..Len(p) : p[k] = "("

\* ^pattern$ with "." literal and "*" any run of characters, flag i
RECURSIVE RegexTest(_, _)
RegexTest(d, p) ==
  IF p = <<>> THEN d = <<>>
  ELSE IF Head(p) = "*"
       THEN RegexTest(d, Tail(p)) \/ (d # <<>> /\ RegexTest(Tail(d), p))
       ELSE /\ d # <<>>
            /\ LowerChar(Head(d)) = LowerChar(Head(p))
            /\ RegexTest(Tail(d), Tail(p))

\* raised: the RegExp constructor throws; otherwise test is regex.test(domain)
matchesDomainPattern(domain, pattern) ==
  IF RegexSyntaxError(CharsOf(pattern))
  THEN [raised |-> TRUE, test |-> FALSE]
  ELSE [raised |-> FALSE, test |-> RegexTest(CharsOf(domain), CharsOf(pattern))]

RECURSIVE PatternScan(_, _, _)
\* lines 92-96, one turn of the loop
PatternStep(m, domain, patterns, k) ==
  IF m.raised THEN RAISE
  ELSE IF m.test THEN patterns[k].category
  ELSE PatternScan(domain, patterns, k + 1)

PatternScan(domain, patterns, k) ==
  IF k > Len(patterns) THEN NULL
  ELSE PatternStep(matchesDomainPattern(domain, patterns[k].pattern), domain, patterns, k)

\* lines 84-98: the category by domain
CategoryByDomain(domain, lookup) ==
  IF ~Truthy(domain) THEN NULL
  ELSE IF Truthy(MapGet(lookup.domains, domain)) THEN MapGet(lookup.domains, domain)
  ELSE PatternScan(domain, lookup.domainPatterns, 1)

\* a category, NULL, or RAISE when matchesDomainPattern throws
getCategoryForEvent(event, lookup) ==
  IF lookup = NoLookup THEN NULL
  ELSE IF Truthy(event.bundleIdentifier)
          /\ Truthy(MapGet(lookup.bundles, event.bundleIdentifier))
  THEN MapGet(lookup.bundles, event.bundleIdentifier)
  ELSE IF Truthy(MapGet(lookup.apps, event.appName))
  THEN MapGet(lookup.apps, event.appName)
  ELSE IF Truthy(event.url)
  THEN CategoryByDomain(extractDomain(event.url), lookup)
  ELSE NULL

(***************************************************************************)
(* Boundary decisions                                                      *)
(***************************************************************************)
\* event.duration ?? 5: the duration is <<>> when null, <<d>> otherwise
DurationOf(event) ==
  IF event.duration = <<>> THEN DEFAULT_DURATION ELSE event.duration[1]

Decision(merge, conf, reason) ==
  [shouldMerge |-> merge, confidence |-> conf, reason |-> reason, suggestedCategory |-> NULL]

NoDecision == [none |-> TRUE]
NoItem == [type |-> NULL, value |-> NULL]
NoKey == <<>>

\* What the synchronous part of a call comes to: a returned decision, a
\* thrown exception, or the call to the AI collaborator (line 265)
Returned(d, consulted, key) ==
  [kind |-> "return", decision |-> d, cacheRead |-> consulted, cacheKey |-> key, item |-> NoItem]
Raised == [kind |-> "raise", decision |-> NoDecision, cacheRead |-> FALSE, cacheKey |-> NoKey, item |-> NoItem]
AskAI(key, item) ==
  [kind |-> "askAI", decision |-> NoDecision, cacheRead |-> TRUE, cacheKey |-> key, item |-> item]

\* Math.round(gap / 60) for gap >= 0
RoundMinutes(gap) == (gap + 30) \div 60

ConservativeSplit_Merge == Decision(TRUE, 50000, <<"Uncategorized - conservative split">>)

\* lines 287-291
ConservativeSplit == Decision(FALSE, 50000, <<"Uncategorized - conservative split">>)

getUncategorizedValue(event) ==
  IF isBrowser(event.appName) /\ Truthy(event.url)
  THEN LET d == extractDomain(event.url) IN IF d # NULL THEN d ELSE event.appName
  ELSE event.appName

\* `${prevKey}|${currKey}`, kept as the pair of its two parts
buildCacheKey(prev, curr) ==
  LET KeyOf(e) ==
        IF isBrowser(e.appName)
        THEN LET d == extractDomain(IF e.url # NULL THEN e.url ELSE "")
             IN  IF d # NULL THEN d ELSE e.appName
        ELSE e.appName
  IN  <<KeyOf(prev), KeyOf(curr)>>

\* lines 251-253
UncategorizedItem(prev, curr, currCat) ==
  IF ~Truthy(currCat)
  THEN [type |-> IF isBrowser(curr.appName) THEN "domain" ELSE "app",
        value |-> getUncategorizedValue(curr)]
  ELSE [type |-> IF isBrowser(prev.appName) THEN "domain" ELSE "app",
        value |-> getUncategorizedValue(prev)]

\* lines 255-291, up to the call of the AI collaborator
CacheOrAI(cacheKey, uncategorizedItem, cache, available) ==
  IF cacheKey \in DOMAIN cache
  THEN Returned(cache[cacheKey], TRUE, cacheKey)
  ELSE IF available
  THEN AskAI(cacheKey, uncategorizedItem)
  ELSE Returned(ConservativeSplit, TRUE, cacheKey)

CompareCategories_CacheFirst(prev, curr, prevCat, currCat, cache, available) ==
  IF prevCat = RAISE \/ currCat = RAISE THEN Raised
  ELSE IF buildCacheKey(prev, curr) \in DOMAIN cache
  THEN Returned(cache[buildCacheKey(prev, curr)], TRUE, buildCacheKey(prev, curr))
  ELSE IF Truthy(prevCat) /\ Truthy(currCat)
  THEN IF prevCat = currCat
       THEN Returned(Decision(TRUE, 85000, <<"Same category (%s)", prevCat>>), FALSE, NoKey)
       ELSE Returned(Decision(FALSE, 90000, <<"Different categories (%s -> %s)", prevCat, currCat>>),
                     FALSE, NoKey)
  ELSE CacheOrAI(buildCacheKey(prev, curr), UncategorizedItem(prev, curr, currCat),
                 cache, available)

\* lines 233-248, with the two categories of lines 230-231
CompareCategories(prev, curr, prevCat, currCat, cache, available) ==
  IF prevCat = RAISE \/ currCat = RAISE THEN Raised
  ELSE IF Truthy(prevCat) /\ Truthy(currCat)
  THEN IF prevCat = currCat
       THEN Returned(Decision(TRUE, 85000, <<"Same category (%s)", prevCat>>), FALSE, NoKey)
       ELSE Returned(Decision(FALSE, 90000, <<"Different categories (%s -> %s)", prevCat, currCat>>),
                     FALSE, NoKey)
  ELSE CacheOrAI(buildCacheKey(prev, curr), UncategorizedItem(prev, curr, currCat),
                 cache, available)

decideByCategory(prev, curr, lookup, cache, available) ==
  CompareCategories(prev, curr, getCategoryForEvent(prev, lookup),
                    getCategoryForEvent(curr, lookup), cache, available)

\* lines 203-216, with the two categories of lines 200-201
RelatedAppsDecision(prevCat, currCat) ==
  IF prevCat = RAISE \/ currCat = RAISE THEN Raised
  ELSE IF Truthy(prevCat) /\ Truthy(currCat) /\ prevCat = currCat
  THEN Returned(Decision(TRUE, 90000, <<"Related apps in same category (%s)", prevCat>>),
                FALSE, NoKey)
  ELSE Returned(Decision(TRUE, 75000, <<"Related application group">>), FALSE, NoKey)

\* lines 164-194
SameAppDecision(prev, curr, lookup, cache, available) ==
  IF isBrowser(prev.appName) /\ Truthy(prev.url) /\ Truthy(curr.url)
  THEN IF extractDomain(prev.url) = extractDomain(curr.url)
       THEN Returned(Decision(TRUE, 100000, <<"Same app and domain">>), FALSE, NoKey)
       ELSE IF areUrlsRelated(prev.url, curr.url)
       THEN Returned(Decision(TRUE, 90000, <<"Related domains (same service ecosystem)">>),
                     FALSE, NoKey)
       ELSE decideByCategory(prev, curr, lookup, cache, available)
  ELSE Returned(Decision(TRUE, 100000, <<"Same application">>), FALSE, NoKey)

\* lines 143-150
LargeGapDecision(gap) ==
  Returned(Decision(FALSE, 100000, <<"Large time gap (%dmin)", RoundMinutes(gap)>>), FALSE, NoKey)

shouldMergeEvents(prev, curr, lookup, cache, available) ==
  IF curr.timestamp - prev.timestamp > MAX_SESSION_GAP
  THEN LargeGapDecision(curr.timestamp - prev.timestamp)
  ELSE IF prev.isIdle /\ DurationOf(prev) > IDLE_THRESHOLD
  THEN Returned(Decision(FALSE, 100000, <<"Extended idle period">>), FALSE, NoKey)
  ELSE IF prev.appName = curr.appName
  THEN SameAppDecision(prev, curr, lookup, cache, available)
  ELSE IF areAppsRelated(prev.appName, curr.appName)
  THEN RelatedAppsDecision(getCategoryForEvent(prev, lookup), getCategoryForEvent(curr, lookup))
  ELSE decideByCategory(prev, curr, lookup, cache, available)

askAIForBoundary_DefaultOnFailure(resp) ==
  IF resp.kind # "object"
  THEN Decision(FALSE, DEFAULT_AI_CONFIDENCE, <<"AI classification">>)
  ELSE [shouldMerge |-> (resp.sameSession = "true"),
        confidence |-> IF resp.confidence = <<>> THEN DEFAULT_AI_CONFIDENCE ELSE resp.confidence[1],
        reason |-> <<IF Truthy(resp.reason) THEN resp.reason ELSE "AI classification">>,
        suggestedCategory |-> resp.suggestedCategory]

\* The BoundaryDecision askAIForBoundary makes of what callHaikuSimple
\* brought: a thrown error, a text JSON.parse rejects, the JSON value null,
\* or a JSON object
askAIForBoundary(resp) ==
  IF resp.kind # "object"
  THEN Decision(FALSE, 50000, <<"AI parse error - conservative split">>)
  ELSE [shouldMerge |-> (resp.sameSession = "true"),
        confidence |-> IF resp.confidence = <<>> THEN DEFAULT_AI_CONFIDENCE ELSE resp.confidence[1],
        reason |-> <<IF Truthy(resp.reason) THEN resp.reason ELSE "AI classification">>,
        suggestedCategory |-> resp.suggestedCategory]

StoresSuggestion_AnyConfidence(aiDecision) ==
  Truthy(aiDecision.suggestedCategory)

\* line 271: the suggestion is stored for this decision
StoresSuggestion(aiDecision) ==
  Truthy(aiDecision.suggestedCategory) /\ aiDecision.confidence >= SUGGEST_CONFIDENCE

(***************************************************************************)
(* Sessions                                                                *)
(***************************************************************************)
VALID_CATEGORIES ==
  {"development", "design", "communication", "research", "distraction", "other"}

toActivityCategory(cat) ==
  IF Truthy(cat) /\ cat \in VALID_CATEGORIES THEN cat ELSE "other"

Last(s) == s[Len(s)]

\* Set.add on the insertion-ordered Set of application names
SetAdd(apps, app) ==
  IF \E k \in 1..Len(apps) : apps[k] = app THEN apps ELSE Append(apps, app)

\* String.prototype.trim
RECURSIVE Trim(_)
Trim(cs) ==
  IF cs = <<>> THEN cs
  ELSE IF Head(cs) \in {" ", "\t"} THEN Trim(Tail(cs))
  ELSE IF Last(cs) \in {" ", "\t"} THEN Trim(SubSeq(cs, 1, Len(cs) - 1))
  ELSE cs

\* a deduplication that compares the values as they are
deduplicateContexts_Exact(ctxs) ==
  LET RECURSIVE Loop(_, _, _)
      Loop(k, seen, result) ==
        IF k > Len(ctxs) THEN result
        ELSE IF ctxs[k].value \notin seen /\ Len(ctxs[k].value) > 0
        THEN Loop(k + 1, seen \cup {ctxs[k].value}, Append(result, ctxs[k].value))
        ELSE Loop(k + 1, seen, result)
  IN  Loop(1, {}, <<>>)

\* contextExtractor.ts lines 386-399
deduplicateContexts(ctxs) ==
  LET RECURSIVE Loop(_, _, _)
      Loop(k, seen, result) ==
        IF k > Len(ctxs) THEN result
        ELSE LET normalized == Trim(ToLowerCase(ctxs[k].value))
             IN  IF normalized \notin seen /\ Len(ctxs[k].value) > 0
                 THEN Loop(k + 1, seen \cup {normalized}, Append(result, ctxs[k].value))
                 ELSE Loop(k + 1, seen, result)
  IN  Loop(1, {}, <<>>)

newSession(event, lookup) ==
  [open |-> TRUE,
   events |-> <<event>>,
   apps |-> <<event.appName>>,
   contextSwitches |-> 0,
   category |-> getCategoryForEvent(event, lookup)]

RECURSIVE SumOfDurations(_, _)
SumOfDurations(events, n) ==
  IF n = 0 THEN 0 ELSE SumOfDurations(events, n - 1) + DurationOf(events[n])

finalizeSession_SumOfEvents(session, uuid) ==
  [id |-> uuid,
   start |-> session.events[1].timestamp,
   end |-> Last(session.events).timestamp + DurationOf(Last(session.events)),
   duration |-> SumOfDurations(session.events, Len(session.events)),
   type |-> "active",
   category |-> toActivityCategory(session.category),
   apps |-> session.apps,
   contextSwitches |-> session.contextSwitches]

finalizeSession_EndFromFirst(session, uuid) ==
  [id |-> uuid,
   start |-> session.events[1].timestamp,
   end |-> session.events[1].timestamp + DurationOf(session.events[1]),
   duration |-> DurationOf(session.events[1]),
   type |-> "active",
   category |-> toActivityCategory(session.category),
   apps |-> session.apps,
   contextSwitches |-> session.contextSwitches]

\* lines 231-258
finalizeSession(session, uuid) ==
  LET firstEvent == session.events[1]
      lastEvent == Last(session.events)
      start == firstEvent.timestamp
      end == lastEvent.timestamp + DurationOf(lastEvent)
  IN  [id |-> uuid,
       start |-> start,
       end |-> end,
       duration |-> end - start,
       type |-> "active",
       category |-> toActivityCategory(session.category),
       apps |-> session.apps,
       contextSwitches |-> session.contextSwitches]

ShouldAppend_Strict(decision) ==
  decision.shouldMerge /\ decision.confidence > MERGE_CONFIDENCE

\* line 180
ShouldAppend(decision) ==
  decision.shouldMerge /\ decision.confidence >= MERGE_CONFIDENCE

\* a count that looks at the application only
CountsAsSwitch_AppOnly(prevEvent, event) == prevEvent.appName # event.appName

\* lines 189-197
CountsAsSwitch(prevEvent, event) ==
  IF prevEvent.appName # event.appName THEN TRUE
  ELSE IF Truthy(event.url) /\ Truthy(prevEvent.url)
       THEN extractDomain(prevEvent.url) # extractDomain(event.url)
       ELSE FALSE

\* a merge that keeps only the arriving event in the accumulator
mergeEvent_KeepLast(session, event, lookup) ==
  [open |-> TRUE,
   events |-> <<event>>,
   apps |-> SetAdd(session.apps, event.appName),
   contextSwitches |-> session.contextSwitches,
   category |-> session.category]

\* lines 181-202; the category lookup of line 201 may throw
mergeEvent(session, event, lookup) ==
  LET prevEvent == Last(session.events)
  IN  [open |-> TRUE,
       events |-> Append(session.events, event),
       apps |-> SetAdd(session.apps, event.appName),
       contextSwitches |->
         session.contextSwitches + (IF CountsAsSwitch(prevEvent, event) THEN 1 ELSE 0),
       category |->
         IF ~Truthy(session.category)
         THEN getCategoryForEvent(event, lookup)
         ELSE session.category]

idleEvent_NoPreceding(out, event, uuid) ==
  IF Len(out) > 0 /\ Last(out).type = "idle"
  THEN [out EXCEPT ![Len(out)] =
          [@ EXCEPT !.end = event.timestamp,
                    !.duration = @ + DurationOf(event)]]
  ELSE Append(out,
         [id |-> uuid,
          start |-> event.timestamp,
          end |-> event.timestamp + DurationOf(event),
          duration |-> DurationOf(event),
          type |-> "idle",
          precedingCategory |-> NULL])

idleEvent_Overwrite(out, event, uuid) ==
  IF Len(out) > 0 /\ Last(out).type = "idle"
  THEN [out EXCEPT ![Len(out)] =
          [@ EXCEPT !.end = event.timestamp,
                    !.duration = DurationOf(event)]]
  ELSE Append(out,
         [id |-> uuid,
          start |-> event.timestamp,
          end |-> event.timestamp + DurationOf(event),
          duration |-> DurationOf(event),
          type |-> "idle",
          precedingCategory |-> IF Len(out) > 0 THEN Last(out).category ELSE NULL])

\* an extension that moves the start of the idle session to the arriving event
idleEvent_MovesStart(out, event, uuid) ==
  IF Len(out) > 0 /\ Last(out).type = "idle"
  THEN [out EXCEPT ![Len(out)] =
          [@ EXCEPT !.start = event.timestamp,
                    !.end = event.timestamp,
                    !.duration = @ + DurationOf(event)]]
  ELSE Append(out,
         [id |-> uuid,
          start |-> event.timestamp,
          end |-> event.timestamp + DurationOf(event),
          duration |-> DurationOf(event),
          type |-> "idle",
          precedingCategory |-> IF Len(out) > 0 THEN Last(out).category ELSE NULL])

\* lines 134-153: the output list after an idle event, given the list with
\* any open accumulator already finalized
idleEvent(out, event, uuid) ==
  IF Len(out) > 0 /\ Last(out).type = "idle"
  THEN [out EXCEPT ![Len(out)] =
          [@ EXCEPT !.end = event.timestamp,
                    !.duration = @ + DurationOf(event)]]
  ELSE Append(out,
         [id |-> uuid,
          start |-> event.timestamp,
          end |-> event.timestamp + DurationOf(event),
          duration |-> DurationOf(event),
          type |-> "idle",
          precedingCategory |-> IF Len(out) > 0 THEN Last(out).category ELSE NULL])

(***************************************************************************)
(* The suggestion sink (categoriesService.createOrUpdateSuggestion)        *)
(***************************************************************************)
\* lines 176-186: the rows the SELECT may return (it has no ORDER BY)
PendingRows(rows, type, value) ==
  {k \in 1..Len(rows) :
     rows[k].type = type /\ rows[k].value = value /\ rows[k].status = "pending"}

\* const [existing] of an empty result
NoExisting == [id |-> 0]

\* the row the SELECT returned, as the caller holds it: a row is identified
\* by its place in the table
Existing(rows, k) == [id |-> k, occurrenceCount |-> rows[k].occurrenceCount]

\* lines 190-198: UPDATE ... WHERE id = existing.id
updateSuggestion(rows, existing, suggestedCategory, confidence) ==
  [rows EXCEPT ![existing.id] =
     [@ EXCEPT !.occurrenceCount = existing.occurrenceCount + 1,
               !.suggestedCategory = suggestedCategory,
               !.confidence = confidence]]

\* lines 202-205, with the defaults of schema.ts:163-172
insertSuggestion(rows, type, value, suggestedCategory, confidence) ==
  Append(rows, [type |-> type, value |-> value,
                suggestedCategory |-> suggestedCategory,
                confidence |-> confidence,
                occurrenceCount |-> 1, status |-> "pending"])

\* lines 169-207 when no other call runs between its SELECT and its write
createOrUpdateSuggestion(rows, type, value, suggestedCategory, confidence) ==
  LET pending == PendingRows(rows, type, value)
  IN  IF pending # {}
      THEN updateSuggestion(rows,
             Existing(rows, CHOOSE k \in pending : \A h \in pending : k <= h),
             suggestedCategory, confidence)
      ELSE insertSuggestion(rows, type, value, suggestedCategory, confidence)

(***************************************************************************)
(* The daily summary (computePatterns, computeCategoryBreakdown,           *)
(* getDailySessions)                                                       *)
(***************************************************************************)
\* longestFocus = null
NoFocus == [none |-> TRUE]

\* s.category: an idle session has no such property
CategoryOf(s) == IF s.type = "idle" THEN NULL ELSE s.category

LongerThan_OrEqual(s, longest) == s.duration >= longest.duration

\* line 273
LongerThan(s, longest) == s.duration > longest.duration

\* lines 271-283: the reduce over focusSessions[k..]
RECURSIVE ReduceLongest(_, _, _)
ReduceLongest(focusSessions, k, longest) ==
  IF k > Len(focusSessions) THEN longest
  ELSE LET s == focusSessions[k]
       IN  ReduceLongest(focusSessions, k + 1,
             IF longest = NoFocus \/ LongerThan(s, longest)
             THEN [category |-> IF Truthy(s.category) THEN s.category ELSE "other",
                   duration |-> s.duration,
                   start |-> s.start]
             ELSE longest)

\* new Date(s.start).getUTCHours()
UTCHours(t) == (t \div 3600) % 24

\* toISOString().split("T")[1].substring(0, 5)
HourMinute(t) == <<UTCHours(t), (t \div 60) % 60>>

\* the indexes of the sessions ss[k..] that pass the filter of line 296
RECURSIVE DistractionIndexes(_, _)
DistractionIndexes(ss, k) ==
  IF k > Len(ss) THEN <<>>
  ELSE (IF ss[k].type = "active" /\ ss[k].category = "distraction" THEN <<k>> ELSE <<>>)
       \o DistractionIndexes(ss, k + 1)

\* reduce((sum, s) => sum + s[field], 0) over ss[k..]
RECURSIVE SumOf(_, _, _)
SumOf(ss, field, k) ==
  IF k > Len(ss) THEN 0 ELSE ss[k][field] + SumOf(ss, field, k + 1)

\* lines 320-324: hourlyProductive as the list of <<hour, duration>> in
\* insertion order, after the sessions ss[k..]
RECURSIVE HourlyProductive(_, _, _)
HourlyProductive(ss, k, hourly) ==
  IF k > Len(ss) THEN hourly
  ELSE IF ss[k].type # "active" \/ ss[k].category = "distraction"
  THEN HourlyProductive(ss, k + 1, hourly)
  ELSE LET hour == UTCHours(ss[k].start)
       IN  IF \E j \in 1..Len(hourly) : hourly[j][1] = hour
           THEN HourlyProductive(ss, k + 1,
                  [j \in 1..Len(hourly) |->
                     IF hourly[j][1] = hour
                     THEN <<hour, hourly[j][2] + ss[k].duration>>
                     ELSE hourly[j]])
           ELSE HourlyProductive(ss, k + 1, Append(hourly, <<hour, ss[k].duration>>))

\* lines 326-333: <<>> is null
RECURSIVE PeakScan(_, _, _, _)
PeakScan(hourly, j, peakDuration, peak) ==
  IF j > Len(hourly) THEN peak
  ELSE IF hourly[j][2] > peakDuration
  THEN PeakScan(hourly, j + 1, hourly[j][2], <<hourly[j][1]>>)
  ELSE PeakScan(hourly, j + 1, peakDuration, peak)

\* lines 263-343; contextSwitchRate in tenths
computePatterns(ss) ==
  LET activeSessions == SelectSeq(ss, LAMBDA s : s.type = "active")
      idleSessions == SelectSeq(ss, LAMBDA s : s.type = "idle")
      focusSessions ==
        SelectSeq(activeSessions,
                  LAMBDA s : Truthy(s.category) /\ s.category # "distraction")
      idlePeriods ==
        [k \in 1..Len(idleSessions) |->
           [start |-> HourMinute(idleSessions[k].start),
            duration |-> idleSessions[k].duration,
            after |-> IF Truthy(idleSessions[k].precedingCategory)
                      THEN idleSessions[k].precedingCategory
                      ELSE "unknown activity"]]
      at == DistractionIndexes(ss, 1)
      distractionBlocks ==
        [j \in 1..Len(at) |->
           [start |-> HourMinute(ss[at[j]].start),
            duration |-> ss[at[j]].duration,
            trigger |-> IF at[j] > 1 /\ Truthy(CategoryOf(ss[at[j] - 1]))
                        THEN <<"after ", CategoryOf(ss[at[j] - 1])>>
                        ELSE <<"start of tracking">>]]
      totalActiveTime == SumOf(activeSessions, "duration", 1)
      totalSwitches == SumOf(activeSessions, "contextSwitches", 1)
      slice10(s) == SubSeq(s, 1, IF Len(s) < 10 THEN Len(s) ELSE 10)
  IN  [longestFocus |-> ReduceLongest(focusSessions, 1, NoFocus),
       idlePeriods |-> slice10(idlePeriods),
       distractionBlocks |-> slice10(distractionBlocks),
       contextSwitchRate |->
         IF totalActiveTime > 0
         THEN (2 * totalSwitches * 36000 + totalActiveTime) \div (2 * totalActiveTime)
         ELSE 0,
       peakProductivityHour |-> PeakScan(HourlyProductive(ss, 1, <<>>), 1, 0, <<>>)]

\* a breakdown that forgets to skip the idle sessions
computeCategoryBreakdown_CountIdle(ss) ==
  LET key(s) == IF CategoryOf(s) = NULL THEN "other" ELSE s.category
      Of(cat) == {k \in 1..Len(ss) : key(ss[k]) = cat}
  IN  [cat \in {key(ss[k]) : k \in 1..Len(ss)} |->
         [duration |-> SumOf(SelectSeq(ss, LAMBDA s : key(s) = cat), "duration", 1),
          sessions |-> Cardinality(Of(cat))]]

\* lines 348-365: a map from the categories of the active sessions
computeCategoryBreakdown(ss) ==
  LET key(s) == IF s.category = NULL THEN "other" ELSE s.category
      active == {k \in 1..Len(ss) : ss[k].type = "active"}
      Of(cat) == {k \in active : key(ss[k]) = cat}
      RECURSIVE Sum(_)
      Sum(ks) == IF ks = {} THEN 0
                 ELSE LET k == CHOOSE x \in ks : TRUE
                      IN  ss[k].duration + Sum(ks \ {k})
  IN  [cat \in {key(ss[k]) : k \in active} |->
         [duration |-> Sum(Of(cat)), sessions |-> Cardinality(Of(cat))]]

\* lines 370-386
emptyDaySummary ==
  [totalActive |-> 0,
   totalIdle |-> 0,
   sessionCount |-> 0,
   patterns |-> [longestFocus |-> NoFocus,
                 idlePeriods |-> <<>>,
                 distractionBlocks |-> <<>>,
                 contextSwitchRate |-> 0,
                 peakProductivityHour |-> <<>>],
   byCategory |-> <<>>]

\* lines 76-105: what getDailySessions returns for the events it read and
\* the sessions aggregateToSessions made of them
DailySummary(events, ss) ==
  IF Len(events) = 0
  THEN emptyDaySummary
  ELSE [totalActive |-> SumOf(SelectSeq(ss, LAMBDA s : s.type = "active"), "duration", 1),
        totalIdle |-> SumOf(SelectSeq(ss, LAMBDA s : s.type = "idle"), "duration", 1),
        sessionCount |-> Len(ss),
        patterns |-> computePatterns(ss),
        byCategory |-> computeCategoryBreakdown(ss)]

(***************************************************************************)
(* Inputs                                                                  *)
(***************************************************************************)
\* The longest batch one run reads
MaxEvents == 3

\* the runs that may be inside createOrUpdateSuggestion at a time, and the
\* jobs the session worker processes at a time (two worker slots)
Recorders == 1..2

\* the requests that may be inside queueSessionAggregation at a time
MaxCallers == 2

\* the most forced aggregations in one behaviour
MaxForced == 1

\* the longest context list of one accumulator
MaxContexts == 12

\* the bundle identifier the agent reports for an application
BundleOf(app) == IF app = "Visual Studio" THEN "com.microsoft.VSCode" ELSE NULL

Event(app, url, idle, duration) ==
  [timestamp |-> 0, appName |-> app, url |-> url, bundleIdentifier |-> BundleOf(app),
   isIdle |-> idle, duration |-> duration]

At(event, t) == [event EXCEPT !.timestamp = t]

GitHubUrl == "https://github.com/a/b"
ExampleUrl == "https://www.example.com/"

\* Contents of the category store, rows in the order of the queries (by
\* application name, by domain)
EmptyStore == [apps |-> <<>>, domains |-> <<>>]

DevStore ==
  [apps |-> << [appName |-> "Cursor", bundleId |-> NULL, category |-> "development"],
               [appName |-> "Ghostty", bundleId |-> NULL, category |-> "development"],
               [appName |-> "Google Chrome", bundleId |-> NULL, category |-> "research"],
               [appName |-> "Visual Studio Code", bundleId |-> "com.microsoft.VSCode",
                category |-> "development"] >>,
   domains |-> << [domain |-> "example.com", pattern |-> NULL, category |-> "distraction"],
                  [domain |-> "github.com", pattern |-> "*.github.com",
                   category |-> "development"] >>]

\* a store whose one wildcard pattern is no regular expression
BadPatternStore ==
  [apps |-> << [appName |-> "Cursor", bundleId |-> NULL, category |-> "development"],
               [appName |-> "Notes", bundleId |-> NULL, category |-> "writing"] >>,
   domains |-> << [domain |-> "github.com", pattern |-> "(", category |-> "development"] >>]

Stores == {EmptyStore, DevStore, BadPatternStore}

\* What callHaikuSimple can bring back
NoResp == [kind |-> "none"]
AIObject(same, conf, cat) ==
  [kind |-> "object", sameSession |-> same, confidence |-> conf,
   reason |-> "ai", suggestedCategory |-> cat]

AIResponses ==
  { [kind |-> "error"],                        \* transport failure, timeout, no text block
    [kind |-> "unparseable"],                  \* JSON.parse throws, or the value is null
    AIObject("true", <<70000>>, "development"),
    AIObject("true", <<69999>>, NULL),
    AIObject("false", <<59999>>, "distraction"),
    AIObject("yes", <<>>, "research"),
    AIObject("true", <<150000>>, NULL) }

\* The events an aggregation run may read next, with the gap to the event before
AggInputs ==
  { <<Event("Cursor", NULL, FALSE, <<>>), 2>>,
    <<Event("Cursor", NULL, FALSE, <<>>), 300>>,
    <<Event("Ghostty", NULL, FALSE, <<>>), 2>>,
    <<Event("Notes", NULL, FALSE, <<10>>), 301>>,
    <<Event("Firefox", GitHubUrl, FALSE, <<>>), 5>>,
    <<Event("Firefox", ExampleUrl, FALSE, <<>>), 2>>,
    <<Event("Google Chrome", GitHubUrl, FALSE, <<>>), 2>>,
    <<Event("Cursor", NULL, TRUE, <<>>), 5>>,
    <<Event("Cursor", NULL, TRUE, <<150>>), 2>> }

\* events with the durations the sync schema lets through besides the
\* positive ones (z.number()), at the head of a batch
FirstInputs ==
  { Event("Cursor", NULL, FALSE, <<0>>),
    Event("Cursor", NULL, FALSE, <<0 - 3>>) }

\* the second of the day at which the batch begins, 5 s before 01:00:00 UTC
FirstTimestamp == 3595

\* the answers of the AI collaborator during an aggregation run
AggResponses ==
  { [kind |-> "error"],
    [kind |-> "unparseable"],
    AIObject("true", <<70000>>, "development"),
    AIObject("true", <<69999>>, NULL) }

\* rawEvents[i]: any next event on a first run, the same batch on a re-run
NextEvents ==
  IF previous # NoRun
  THEN IF Len(rawEvents) < Len(previous.events)
       THEN {previous.events[Len(rawEvents) + 1]}
       ELSE {}
  ELSE IF rawEvents = <<>>
  THEN {At(event, FirstTimestamp) : event \in {in[1] : in \in AggInputs} \cup FirstInputs}
  ELSE {At(in[1], Last(rawEvents).timestamp + in[2]) : in \in AggInputs}

(***************************************************************************)
(* One aggregation run (getDailySessions, aggregateToSessions)             *)
(***************************************************************************)
NoCall == [none |-> TRUE]

NewCall(prev, curr, index, r) ==
  [index |-> index, prev |-> prev, curr |-> curr,
   kind |-> r.kind, decision |-> r.decision,
   cacheRead |-> r.cacheRead, cacheKey |-> r.cacheKey, item |-> r.item,
   resp |-> NoResp, aiDecision |-> NoDecision, stored |-> FALSE]

Init ==
  /\ aiAvailable \in BOOLEAN
  /\ categoryStore \in Stores
  /\ categoryLookup = NoLookup
  /\ aiDecisionCache = EmptyMap
  /\ suggestions = <<>>
  /\ rawEvents = <<>>
  /\ sessions = <<>>
  /\ members = <<>>
  /\ currentSession = NoSession
  /\ nextUuid = 0
  /\ call = NoCall
  /\ pc = "start"
  /\ snapshot = NoLookup
  /\ previous = NoRun
  /\ decided = {}
  /\ summary = NoSummary
  /\ recorders = <<>>
  /\ ingested = 0
  /\ job = NoJob
  /\ dailyRow = NoRow
  /\ response = NoResponse
  /\ contexts = [session |-> <<>>, finalized |-> FALSE, list |-> <<>>]
  /\ callers = [c \in 1..MaxCallers |-> [pc |-> "idle"]]
  /\ queue = [id \in 0..MaxForced |-> "none"]
  /\ workers = [w \in Recorders |-> [pc |-> "idle"]]
  /\ dailySessions = <<>>

\* line 54
refreshCategoryLookup ==
  /\ pc = "start"
  /\ categoryLookup' = getCategoryLookupMaps(categoryStore)
  /\ snapshot' = getCategoryLookupMaps(categoryStore)
  /\ pc' = "loop"
  /\ UNCHANGED decided
  /\ UNCHANGED <<recorders, jobVars, queueVars, contexts, summary, aiAvailable, previous, categoryStore, aiDecisionCache, suggestions,
                 rawEvents, sessions, members, currentSession, nextUuid, call>>

\* line 54 when the queries of getCategoryLookupMaps reject: the await
\* rethrows and getDailySessions rejects
refreshCategoryLookupRejects ==
  /\ pc = "start"
  /\ pc' = "refresh_failed"
  /\ UNCHANGED <<recorders, jobVars, queueVars, contexts, summary, aiAvailable, previous, categoryStore, categoryLookup, aiDecisionCache,
                 suggestions, rawEvents, sessions, members, currentSession, nextUuid, call,
                 snapshot, decided>>

\* lines 134-155, with the output list after line 132
PushIdle(closed, used, event) ==
  /\ sessions' = idleEvent(closed, event, used + 1)
  /\ nextUuid' = IF Len(closed) > 0 /\ Last(closed).type = "idle" THEN used ELSE used + 1

\* lines 127-155
HandleIdleEvent(event) ==
  /\ pc = "loop"
  /\ Len(rawEvents) < MaxEvents
  /\ event.isIdle
  /\ rawEvents' = Append(rawEvents, event)
  /\ IF currentSession # NoSession /\ Len(currentSession.events) > 0
     THEN /\ PushIdle(Append(sessions, finalizeSession(currentSession, nextUuid + 1)),
                      nextUuid + 1, event)
          /\ currentSession' = NoSession
     ELSE /\ PushIdle(sessions, nextUuid, event)
          /\ UNCHANGED currentSession
  /\ members' =
       LET closed == IF currentSession # NoSession /\ Len(currentSession.events) > 0
                     THEN Append(members, currentSession.events)
                     ELSE members
       IN  IF Len(sessions') = Len(closed)
           THEN [closed EXCEPT ![Len(closed)] = Append(@, event)]
           ELSE Append(closed, <<event>>)
  /\ UNCHANGED <<recorders, jobVars, queueVars, contexts, summary, aiAvailable, previous, categoryStore, categoryLookup, aiDecisionCache,
                 suggestions, call, pc, snapshot, decided>>

\* the accumulator s becomes the open one, unless its category lookup threw
Enter(s) ==
  IF s.category = RAISE
  THEN pc' = "failed" /\ UNCHANGED currentSession
  ELSE pc' = "loop" /\ currentSession' = s

\* lines 158-171
OpenSession(event) ==
  /\ pc = "loop"
  /\ Len(rawEvents) < MaxEvents
  /\ ~event.isIdle
  /\ currentSession = NoSession
  /\ rawEvents' = Append(rawEvents, event)
  /\ Enter(newSession(event, categoryLookup))
  /\ UNCHANGED <<recorders, jobVars, queueVars, contexts, summary, aiAvailable, previous, categoryStore, categoryLookup, aiDecisionCache,
                 suggestions, sessions, members, nextUuid, call, snapshot, decided>>

\* lines 180-217: the loop body after shouldMergeEvents returned decision
Resume(decision, event) ==
  IF ShouldAppend(decision)
  THEN /\ Enter(mergeEvent(currentSession, event, categoryLookup))
       /\ UNCHANGED <<sessions, members, nextUuid>>
  ELSE /\ sessions' = Append(sessions, finalizeSession(currentSession, nextUuid + 1))
       /\ members' = Append(members, currentSession.events)
       /\ nextUuid' = nextUuid + 1
       /\ Enter(newSession(event, categoryLookup))

\* a call returns decision; key is its cache key when it came past the cache read
Returns(key, decision) ==
  decided' = IF key = NoKey THEN decided ELSE decided \cup {<<key, decision>>}

\* what the loop does with the outcome r of the synchronous part of the call
Dispatch(prevEvent, event, r) ==
  /\ call' = NewCall(prevEvent, event, Len(rawEvents) + 1, r)
  /\ CASE r.kind = "return" ->
            Resume(r.decision, event) /\ Returns(r.cacheKey, r.decision)
       [] r.kind = "raise" ->
            pc' = "failed" /\ UNCHANGED <<sessions, members, currentSession, nextUuid, decided>>
       [] r.kind = "askAI" ->
            pc' = "ai" /\ UNCHANGED <<sessions, members, currentSession, nextUuid, decided>>

\* a loop that asks for a decision on idle events as well
CallShouldMerge_AnyEvent(event) ==
  /\ pc = "loop"
  /\ Len(rawEvents) < MaxEvents
  /\ currentSession # NoSession
  /\ rawEvents' = Append(rawEvents, event)
  /\ Dispatch(Last(currentSession.events), event,
              shouldMergeEvents(Last(currentSession.events), event, categoryLookup,
                                aiDecisionCache, aiAvailable))
  /\ UNCHANGED <<recorders, jobVars, queueVars, contexts, summary, aiAvailable, previous, categoryStore, categoryLookup, aiDecisionCache,
                 suggestions, snapshot>>

\* lines 174-178, up to the first suspension of shouldMergeEvents
CallShouldMerge(event) ==
  /\ pc = "loop"
  /\ Len(rawEvents) < MaxEvents
  /\ ~event.isIdle
  /\ currentSession # NoSession
  /\ rawEvents' = Append(rawEvents, event)
  /\ Dispatch(Last(currentSession.events), event,
              shouldMergeEvents(Last(currentSession.events), event, categoryLookup,
                                aiDecisionCache, aiAvailable))
  /\ UNCHANGED <<recorders, jobVars, queueVars, contexts, summary, aiAvailable, previous, categoryStore, categoryLookup, aiDecisionCache,
                 suggestions, snapshot>>

\* sessionBoundary lines 268-280, with the decision askAIForBoundary returned
AfterAI(resp, aiDecision) ==
  /\ aiDecisionCache' = MapSet(aiDecisionCache, call.cacheKey, aiDecision)
  /\ IF StoresSuggestion(aiDecision)
     THEN /\ call' = [call EXCEPT !.resp = resp, !.aiDecision = aiDecision]
          /\ pc' = "sink"
          /\ UNCHANGED <<sessions, members, currentSession, nextUuid, decided>>
     ELSE /\ call' = [call EXCEPT !.resp = resp, !.aiDecision = aiDecision,
                                  !.kind = "return", !.decision = aiDecision]
          /\ Resume(aiDecision, call.curr)
          /\ Returns(call.cacheKey, aiDecision)

\* sessionBoundary lines 265-280: callHaikuSimple settles
AIResponse(resp) ==
  /\ pc = "ai"
  /\ AfterAI(resp, askAIForBoundary(resp))
  /\ UNCHANGED <<recorders, jobVars, queueVars, contexts, summary, aiAvailable, previous, categoryStore, categoryLookup, suggestions, rawEvents,
                 snapshot>>

\* sessionBoundary lines 272-280: createOrUpdateSuggestion settles
SuggestionStored ==
  /\ pc = "sink"
  /\ suggestions' = createOrUpdateSuggestion(suggestions, call.item.type, call.item.value,
                        call.aiDecision.suggestedCategory, call.aiDecision.confidence)
  /\ call' = [call EXCEPT !.kind = "return", !.decision = call.aiDecision, !.stored = TRUE]
  /\ Resume(call.aiDecision, call.curr)
  /\ Returns(call.cacheKey, call.aiDecision)
  /\ UNCHANGED <<recorders, jobVars, queueVars, contexts, summary, aiAvailable, previous, categoryStore, categoryLookup, aiDecisionCache, rawEvents,
                 snapshot>>

\* sessionBoundary lines 281-291: createOrUpdateSuggestion rejects
SuggestionFailed ==
  /\ pc = "sink"
  /\ call' = [call EXCEPT !.kind = "return", !.decision = ConservativeSplit]
  /\ Resume(ConservativeSplit, call.curr)
  /\ Returns(call.cacheKey, ConservativeSplit)
  /\ UNCHANGED <<recorders, jobVars, queueVars, contexts, summary, aiAvailable, previous, categoryStore, categoryLookup, aiDecisionCache,
                 suggestions, rawEvents, snapshot>>

\* lines 220-225
EndOfStream ==
  /\ pc = "loop"
  /\ previous # NoRun => Len(rawEvents) = Len(previous.events)
  /\ IF currentSession # NoSession /\ Len(currentSession.events) > 0
     THEN /\ sessions' = Append(sessions, finalizeSession(currentSession, nextUuid + 1))
          /\ members' = Append(members, currentSession.events)
          /\ nextUuid' = nextUuid + 1
     ELSE UNCHANGED <<sessions, members, nextUuid>>
  /\ currentSession' = NoSession
  /\ summary' = DailySummary(rawEvents, sessions')
  /\ pc' = "done"
  /\ UNCHANGED <<recorders, jobVars, queueVars, contexts, aiAvailable, previous, categoryStore, categoryLookup, aiDecisionCache,
                 suggestions, rawEvents, call, snapshot, decided>>

Next ==
  \/ refreshCategoryLookup
  \/ refreshCategoryLookupRejects
  \/ \E event \in NextEvents : HandleIdleEvent(event)
  \/ \E event \in NextEvents : OpenSession(event)
  \/ \E event \in NextEvents : CallShouldMerge(event)
  \/ \E resp \in AggResponses : AIResponse(resp)
  \/ SuggestionStored
  \/ SuggestionFailed
  \/ EndOfStream

Spec == Init /\ [][Next]_vars

(***************************************************************************)
(* Runs of one process: a re-run of the same batch, and the other runs and *)
(* requests that are served while this run waits for the AI collaborator   *)
(* or the suggestion store                                                 *)
(***************************************************************************)
\* getDailySessions is called again for the same day: the same events are
\* read; the lookup, the decision cache and the UUID source are the
\* process's
Rerun(hours) ==
  /\ pc = "done"
  /\ previous = NoRun
  /\ rawEvents # <<>>
  /\ previous' = [events |-> rawEvents, sessions |-> sessions, snapshot |-> snapshot,
                  cache |-> aiDecisionCache, hours |-> hours]
  /\ rawEvents' = <<>>
  /\ sessions' = <<>>
  /\ members' = <<>>
  /\ currentSession' = NoSession
  /\ call' = NoCall
  /\ pc' = "start"
  /\ summary' = NoSummary
  /\ UNCHANGED <<recorders, jobVars, queueVars, contexts, aiAvailable, categoryStore, categoryLookup, aiDecisionCache,
                 suggestions, nextUuid, snapshot, decided>>

\* this run is suspended in an await on I/O
Suspended == pc \in {"ai", "sink"}

\* a category request changes the tables (upsertAppCategory,
\* upsertDomainCategory, deleteAppCategory, deleteDomainCategory)
CategoryUpdate(store) ==
  /\ Suspended
  /\ store # categoryStore
  /\ categoryStore' = store
  /\ UNCHANGED <<recorders, jobVars, queueVars, contexts, summary, aiAvailable, previous, categoryLookup, aiDecisionCache, suggestions,
                 rawEvents, sessions, members, currentSession, nextUuid, call, pc, snapshot, decided>>

\* another run (second worker slot, API request) starts and refreshes the
\* lookup of the one SessionBoundaryService
OtherRunRefresh ==
  /\ Suspended
  /\ categoryLookup' = getCategoryLookupMaps(categoryStore)
  /\ categoryLookup' # categoryLookup
  /\ UNCHANGED <<recorders, jobVars, queueVars, contexts, summary, aiAvailable, previous, categoryStore, aiDecisionCache, suggestions,
                 rawEvents, sessions, members, currentSession, nextUuid, call, pc, snapshot, decided>>

NextRuns ==
  \/ Next
  \* hours between the end of a run and the next run of the same process
  \/ \E hours \in {1, 25} : Rerun(hours)
  \/ \E store \in Stores : CategoryUpdate(store)
  \/ OtherRunRefresh

SpecRuns == Init /\ [][NextRuns]_vars

(***************************************************************************)
(* One call of shouldMergeEvents on any two events                         *)
(***************************************************************************)
\* Applications with and without URLs
DecideShapes ==
  { Event(app, NULL, FALSE, <<>>) : app \in {"Cursor", "Ghostty", "Notes", "Visual Studio"} }
  \cup { Event("Notes", GitHubUrl, FALSE, <<>>) }
  \cup { Event("Firefox", url, FALSE, <<>>) :
           \* the last two have no scheme, which new URL() rejects
           url \in {NULL, GitHubUrl, "https://github.com/a/b/issues",
                    "https://gist.github.com/x", ExampleUrl,
                    "github.com/a/b", "example.com/x"} }
  \cup { Event("Google Chrome", url, FALSE, <<>>) : url \in {GitHubUrl, ExampleUrl} }

\* A cache left by earlier calls of this process: empty, or one decision the
\* AI collaborator gave for a pair of uncategorized items
SeedCaches ==
  {EmptyMap} \cup
  { MapSet(EmptyMap, <<"Notes", "Cursor">>, askAIForBoundary(resp)) :
      \* the answers behind the seeded decisions
      resp \in { [kind |-> "error"], AIObject("true", <<70000>>, "development"),
                 AIObject("true", <<150000>>, NULL) } }

\* the lookup is the snapshot of the store, or none when no run has refreshed it
SeedLookups ==
  {<<EmptyStore, NoLookup>>} \cup {<<store, getCategoryLookupMaps(store)>> : store \in Stores}

InitDecide ==
  /\ aiAvailable \in BOOLEAN
  /\ \E seed \in SeedLookups : categoryStore = seed[1] /\ categoryLookup = seed[2]
  /\ aiDecisionCache \in (IF aiAvailable THEN SeedCaches ELSE {EmptyMap})
  /\ suggestions = <<>>
  /\ rawEvents = <<>>
  /\ sessions = <<>>
  /\ members = <<>>
  /\ currentSession = NoSession
  /\ nextUuid = 0
  /\ call = NoCall
  /\ pc = "ready"
  /\ snapshot = categoryLookup
  /\ previous = NoRun
  /\ decided = {}
  /\ summary = NoSummary
  /\ recorders = <<>>
  /\ ingested = 0
  /\ job = NoJob
  /\ dailyRow = NoRow
  /\ response = NoResponse
  /\ contexts = [session |-> <<>>, finalized |-> FALSE, list |-> <<>>]
  /\ callers = [c \in 1..MaxCallers |-> [pc |-> "idle"]]
  /\ queue = [id \in 0..MaxForced |-> "none"]
  /\ workers = [w \in Recorders |-> [pc |-> "idle"]]
  /\ dailySessions = <<>>

DecideOutcome(prev, curr, r) ==
  /\ call' = NewCall(prev, curr, 0, r)
  /\ pc' = CASE r.kind = "return" -> "returned"
             [] r.kind = "raise" -> "raised"
             [] r.kind = "askAI" -> "d_ai"
  /\ IF r.kind = "return" THEN Returns(r.cacheKey, r.decision) ELSE UNCHANGED decided

\* sessionBoundary lines 138-263
DecideCall(prev, curr) ==
  /\ pc = "ready"
  /\ DecideOutcome(prev, curr,
       shouldMergeEvents(prev, curr, categoryLookup, aiDecisionCache, aiAvailable))
  /\ UNCHANGED <<recorders, jobVars, queueVars, contexts, summary, aiAvailable, previous, categoryStore, categoryLookup, aiDecisionCache,
                 suggestions, rawEvents, sessions, members, currentSession, nextUuid, snapshot>>

DecideAfterAI(resp, aiDecision) ==
  /\ aiDecisionCache' = MapSet(aiDecisionCache, call.cacheKey, aiDecision)
  /\ IF StoresSuggestion(aiDecision)
     THEN /\ call' = [call EXCEPT !.resp = resp, !.aiDecision = aiDecision]
          /\ pc' = "d_sink"
          /\ UNCHANGED decided
     ELSE /\ call' = [call EXCEPT !.resp = resp, !.aiDecision = aiDecision,
                                  !.kind = "return", !.decision = aiDecision]
          /\ pc' = "returned"
          /\ Returns(call.cacheKey, aiDecision)

\* sessionBoundary lines 265-280: callHaikuSimple settles
DecideAIResponse(resp) ==
  /\ pc = "d_ai"
  /\ DecideAfterAI(resp, askAIForBoundary(resp))
  /\ UNCHANGED <<recorders, jobVars, queueVars, contexts, summary, aiAvailable, previous, categoryStore, categoryLookup, suggestions,
                 rawEvents, sessions, members, currentSession, nextUuid, snapshot>>

\* sessionBoundary lines 272-280: createOrUpdateSuggestion settles
DecideSuggestionStored ==
  /\ pc = "d_sink"
  /\ suggestions' = createOrUpdateSuggestion(suggestions, call.item.type, call.item.value,
                        call.aiDecision.suggestedCategory, call.aiDecision.confidence)
  /\ call' = [call EXCEPT !.kind = "return", !.decision = call.aiDecision, !.stored = TRUE]
  /\ pc' = "returned"
  /\ Returns(call.cacheKey, call.aiDecision)
  /\ UNCHANGED <<recorders, jobVars, queueVars, contexts, summary, aiAvailable, previous, categoryStore, categoryLookup, aiDecisionCache,
                 rawEvents, sessions, members, currentSession, nextUuid, snapshot>>

\* sessionBoundary lines 281-291: createOrUpdateSuggestion rejects
DecideSuggestionFailed ==
  /\ pc = "d_sink"
  /\ call' = [call EXCEPT !.kind = "return", !.decision = ConservativeSplit]
  /\ pc' = "returned"
  /\ Returns(call.cacheKey, ConservativeSplit)
  /\ UNCHANGED <<recorders, jobVars, queueVars, contexts, summary, aiAvailable, previous, categoryStore, categoryLookup, aiDecisionCache,
                 suggestions, rawEvents, sessions, members, currentSession, nextUuid, snapshot>>

NextDecide ==
  \* prev may be an idle event around IDLE_THRESHOLD
  \/ \E prev \in DecideShapes
                  \cup { Event("Cursor", NULL, TRUE, d) : d \in {<<>>, <<120>>, <<121>>} },
        curr \in DecideShapes, gap \in {2, 300, 301} :
       DecideCall(prev, At(curr, gap))
  \/ \E resp \in AIResponses : DecideAIResponse(resp)
  \/ DecideSuggestionStored
  \/ DecideSuggestionFailed

SpecDecide == InitDecide /\ [][NextDecide]_vars

(***************************************************************************)
(* createOrUpdateSuggestion called by concurrent runs: each call is a      *)
(* SELECT and, after an await, an UPDATE or an INSERT                      *)
(***************************************************************************)
\* the most calls made in one behaviour
MaxRecords == 3

SinkItems ==
  { [type |-> "app", value |-> "Notes"],
    [type |-> "domain", value |-> "example.org"] }

SinkAnswers ==
  { [suggestedCategory |-> "research", confidence |-> 60000],
    [suggestedCategory |-> "development", confidence |-> 90000] }

\* no call of this run is in flight
IdleRecorder == [pc |-> "idle"]

\* a server with empty tables and an empty queue, no run in progress
InitServer ==
  /\ aiAvailable = TRUE
  /\ categoryStore = EmptyStore
  /\ categoryLookup = getCategoryLookupMaps(EmptyStore)
  /\ aiDecisionCache = EmptyMap
  /\ suggestions = <<>>
  /\ rawEvents = <<>>
  /\ sessions = <<>>
  /\ members = <<>>
  /\ currentSession = NoSession
  /\ nextUuid = 0
  /\ call = NoCall
  /\ pc = "start"
  /\ snapshot = categoryLookup
  /\ previous = NoRun
  /\ decided = {}
  /\ summary = NoSummary
  /\ recorders = [r \in Recorders |-> IdleRecorder]
  /\ ingested = 0
  /\ job = NoJob
  /\ dailyRow = NoRow
  /\ response = NoResponse
  /\ contexts = [session |-> <<>>, finalized |-> FALSE, list |-> <<>>]
  /\ callers = [c \in 1..MaxCallers |-> [pc |-> "idle"]]
  /\ queue = [id \in 0..MaxForced |-> "none"]
  /\ workers = [w \in Recorders |-> [pc |-> "idle"]]
  /\ dailySessions = <<>>

\* categories.ts lines 176-186: the SELECT of run r settles
RecordSelect(r, item, answer) ==
  /\ recorders[r] = IdleRecorder
  /\ SumOf(suggestions, "occurrenceCount", 1)
       + Cardinality({q \in Recorders : recorders[q] # IdleRecorder}) < MaxRecords
  /\ \E existing \in IF PendingRows(suggestions, item.type, item.value) = {}
                    THEN {NoExisting}
                    ELSE {Existing(suggestions, k) :
                            k \in PendingRows(suggestions, item.type, item.value)} :
       recorders' = [recorders EXCEPT ![r] =
                       [pc |-> "selected", item |-> item, answer |-> answer,
                        existing |-> existing]]
  /\ UNCHANGED suggestions
  /\ UNCHANGED <<runVars, jobVars, queueVars, contexts>>

\* categories.ts lines 188-199: the UPDATE of run r settles
RecordUpdate(r) ==
  /\ recorders[r] # IdleRecorder
  /\ recorders[r].existing # NoExisting
  /\ suggestions' = updateSuggestion(suggestions, recorders[r].existing,
                      recorders[r].answer.suggestedCategory, recorders[r].answer.confidence)
  /\ recorders' = [recorders EXCEPT ![r] = IdleRecorder]
  /\ UNCHANGED <<runVars, jobVars, queueVars, contexts>>

\* categories.ts lines 202-206: the INSERT of run r settles
RecordInsert(r) ==
  /\ recorders[r] # IdleRecorder
  /\ recorders[r].existing = NoExisting
  /\ suggestions' = insertSuggestion(suggestions, recorders[r].item.type,
                      recorders[r].item.value,
                      recorders[r].answer.suggestedCategory, recorders[r].answer.confidence)
  /\ recorders' = [recorders EXCEPT ![r] = IdleRecorder]
  /\ UNCHANGED <<runVars, jobVars, queueVars, contexts>>

NextSink ==
  \/ \E r \in Recorders, item \in SinkItems, answer \in SinkAnswers :
       RecordSelect(r, item, answer)
  \/ \E r \in Recorders : RecordUpdate(r)
  \/ \E r \in Recorders : RecordInsert(r)

SpecSink == InitServer /\ [][NextSink]_vars

(***************************************************************************)
(* Sync, the session queue, the session worker and the sessions endpoint,  *)
(* for one (deviceId, date).  The aggregation a job or a request runs is   *)
(* kept as the number of events it read.                                   *)
(***************************************************************************)
\* the most events synced in one behaviour, one per request
MaxSyncs == 3

\* queues.ts lines 52-81: the job after queueSessionAggregation; getJob
\* finds the job with this id in whatever state it is kept
queueSessionAggregation(existingJob, delay) ==
  IF existingJob # NoJob
  THEN existingJob
  ELSE [state |-> IF delay > 0 THEN "delayed" ELSE "waiting", read |-> <<>>]

\* routes/events.ts lines 12-42: POST /sync ingests an event of the date and
\* queues the aggregation with a delay of 30 s
Sync ==
  /\ ingested < MaxSyncs
  /\ ingested' = ingested + 1
  /\ job' = queueSessionAggregation(job, 30000)
  /\ UNCHANGED <<dailyRow, response>>
  /\ UNCHANGED <<runVars, suggestions, recorders, queueVars, contexts>>

\* the delay of the job is over
JobPromote ==
  /\ job.state = "delayed"
  /\ job' = [job EXCEPT !.state = "waiting"]
  /\ UNCHANGED <<ingested, dailyRow, response>>
  /\ UNCHANGED <<runVars, suggestions, recorders, queueVars, contexts>>

\* sessionWorker.ts lines 20-25: the worker takes the job
JobStart ==
  /\ job.state = "waiting"
  /\ job' = [job EXCEPT !.state = "active"]
  /\ UNCHANGED <<ingested, dailyRow, response>>
  /\ UNCHANGED <<runVars, suggestions, recorders, queueVars, contexts>>

\* sessionWorker.ts line 30, part_002 lines 70-74: the event query of the
\* job's getDailySessions settles
JobReadEvents ==
  /\ job.state = "active"
  /\ job.read = <<>>
  /\ job' = [job EXCEPT !.read = <<ingested>>]
  /\ UNCHANGED <<ingested, dailyRow, response>>
  /\ UNCHANGED <<runVars, suggestions, recorders, queueVars, contexts>>

\* sessionWorker.ts lines 32-81: the result is upserted and the job completes
JobStore ==
  /\ job.state = "active"
  /\ job.read # <<>>
  /\ dailyRow' = [stored |-> TRUE, events |-> job.read[1]]
  /\ job' = [job EXCEPT !.state = "completed"]
  /\ UNCHANGED <<ingested, response>>
  /\ UNCHANGED <<runVars, suggestions, recorders, queueVars, contexts>>

\* queues.ts lines 17-20: a completed job is removed after 24 h (or when
\* 1000 later ones completed)
JobRemoved ==
  /\ job.state = "completed"
  /\ job' = NoJob
  /\ UNCHANGED <<ingested, dailyRow, response>>
  /\ UNCHANGED <<runVars, suggestions, recorders, queueVars, contexts>>

\* routes/events.ts lines 171-266: GET /stats/sessions/:date with deviceId,
\* without forceCompute, startAt and endAt
GetSessions ==
  /\ IF dailyRow # NoRow
     THEN /\ response' = [status |-> 200, cached |-> TRUE, events |-> dailyRow.events]
          /\ UNCHANGED job
     ELSE IF job = NoJob
     THEN /\ job' = queueSessionAggregation(job, 0)
          /\ response' = [status |-> 202]
     ELSE /\ response' = [status |-> 200, cached |-> FALSE, events |-> ingested]
          /\ UNCHANGED job
  /\ UNCHANGED <<ingested, dailyRow>>
  /\ UNCHANGED <<runVars, suggestions, recorders, queueVars, contexts>>

NextJobs ==
  \/ Sync
  \/ JobPromote
  \/ JobStart
  \/ JobReadEvents
  \/ JobStore
  \/ JobRemoved
  \/ GetSessions

SpecJobs == InitServer /\ [][NextJobs]_vars

\* the queue's timer and the worker loop go on: a delayed job becomes
\* waiting, a waiting job is taken, a taken job runs to its end
SpecJobsFair ==
  /\ SpecJobs
  /\ WF_vars(JobPromote)
  /\ WF_vars(JobStart)
  /\ WF_vars(JobReadEvents)
  /\ WF_vars(JobStore)

(***************************************************************************)
(* The session queue with concurrent requests and both slots of the        *)
(* worker, for one (deviceId, date).  Job 0 is the job with the id         *)
(* sessions-<deviceId>-<date>, the jobs 1.. are forced aggregations, whose *)
(* ids end in the time of the request.                                     *)
(***************************************************************************)
\* routes/events.ts lines 17-26, queues.ts lines 58-68: request c ingests an
\* event and calls queueSessionAggregation, whose getJob settles; with a job
\* found the call returns null
QueueGetJob(c) ==
  /\ callers[c].pc # "got"
  /\ ingested < MaxSyncs
  /\ ingested' = ingested + 1
  /\ callers' = [callers EXCEPT ![c] =
                   [pc |-> IF queue[0] # "none" THEN "returned" ELSE "got",
                    returned |-> <<>>,
                    meanwhile |-> FALSE]]
  /\ UNCHANGED <<queue, workers, dailySessions>>
  /\ UNCHANGED <<runVars, suggestions, recorders, contexts, job, dailyRow, response>>

\* queues.ts lines 70-80: sessionQueue.add settles; BullMQ adds nothing when
\* a job of the id exists, and gives the Job of that id either way.  The
\* calls in flight note that this one returned a job id meanwhile (history).
QueueAdd(c) ==
  /\ callers[c].pc = "got"
  /\ queue' = [queue EXCEPT ![0] = IF @ = "none" THEN "queued" ELSE @]
  /\ callers' = [d \in DOMAIN callers |->
                   IF d = c
                   THEN [callers[c] EXCEPT !.pc = "returned", !.returned = <<0>>]
                   ELSE IF callers[d].pc = "got"
                   THEN [callers[d] EXCEPT !.meanwhile = TRUE]
                   ELSE callers[d]]
  /\ UNCHANGED <<ingested, workers, dailySessions>>
  /\ UNCHANGED <<runVars, suggestions, recorders, contexts, job, dailyRow, response>>

\* routes/categories.ts line 501, queues.ts lines 86-102: a job with an id
\* of its own, whatever the queue holds
forceSessionAggregation(id) ==
  /\ id > 0
  /\ queue[id] = "none"
  /\ queue' = [queue EXCEPT ![id] = "queued"]
  /\ UNCHANGED <<ingested, callers, workers, dailySessions>>
  /\ UNCHANGED <<runVars, suggestions, recorders, contexts, job, dailyRow, response>>

\* sessionWorker.ts lines 20-25, 89: a free slot takes a job whose delay is over
WorkerTake(w, id) ==
  /\ workers[w].pc = "idle"
  /\ queue[id] = "queued"
  /\ queue' = [queue EXCEPT ![id] = "active"]
  /\ workers' = [workers EXCEPT ![w] = [pc |-> "compute", job |-> id, result |-> 0, existing |-> 0]]
  /\ UNCHANGED <<ingested, callers, dailySessions>>
  /\ UNCHANGED <<runVars, suggestions, recorders, contexts, job, dailyRow, response>>

\* sessionWorker.ts line 30: getDailySessions settles, with the sessions of
\* the events it read
WorkerCompute(w) ==
  /\ workers[w].pc = "compute"
  /\ workers' = [workers EXCEPT ![w].pc = "select", ![w].result = ingested]
  /\ UNCHANGED <<ingested, callers, queue, dailySessions>>
  /\ UNCHANGED <<runVars, suggestions, recorders, contexts, job, dailyRow, response>>

\* sessionWorker.ts lines 33-40: the SELECT settles, with the id of a row of
\* the (deviceId, date) when there is one (limit 1, no ORDER BY)
WorkerSelect(w) ==
  /\ workers[w].pc = "select"
  /\ \E existing \in IF dailySessions = <<>> THEN {0} ELSE DOMAIN dailySessions :
       workers' = [workers EXCEPT ![w].pc = "store", ![w].existing = existing]
  /\ UNCHANGED <<ingested, callers, queue, dailySessions>>
  /\ UNCHANGED <<runVars, suggestions, recorders, contexts, job, dailyRow, response>>

\* sessionWorker.ts lines 42-81: the UPDATE of the row found, or the INSERT
\* of a row, settles and the job completes
WorkerStore(w) ==
  /\ workers[w].pc = "store"
  /\ dailySessions' =
       IF workers[w].existing > 0
       THEN [dailySessions EXCEPT ![workers[w].existing] =
               [@ EXCEPT !.events = workers[w].result, !.jobId = workers[w].job]]
       ELSE Append(dailySessions,
                   [id |-> Len(dailySessions) + 1, events |-> workers[w].result,
                    jobId |-> workers[w].job])
  /\ queue' = [queue EXCEPT ![workers[w].job] = "completed"]
  /\ workers' = [workers EXCEPT ![w] = [pc |-> "idle"]]
  /\ UNCHANGED <<ingested, callers>>
  /\ UNCHANGED <<runVars, suggestions, recorders, contexts, job, dailyRow, response>>

\* queues.ts lines 17-20: a completed job is removed after 24 h (or when
\* 1000 later ones completed)
QueueRemove(id) ==
  /\ queue[id] = "completed"
  /\ queue' = [queue EXCEPT ![id] = "none"]
  /\ UNCHANGED <<ingested, callers, workers, dailySessions>>
  /\ UNCHANGED <<runVars, suggestions, recorders, contexts, job, dailyRow, response>>

NextQueue ==
  \/ \E c \in DOMAIN callers : QueueGetJob(c)
  \/ \E c \in DOMAIN callers : QueueAdd(c)
  \/ \E id \in DOMAIN queue : forceSessionAggregation(id)
  \/ \E w \in Recorders, id \in DOMAIN queue : WorkerTake(w, id)
  \/ \E w \in Recorders : WorkerCompute(w)
  \/ \E w \in Recorders : WorkerSelect(w)
  \/ \E w \in Recorders : WorkerStore(w)
  \/ \E id \in DOMAIN queue : QueueRemove(id)

SpecQueue == InitServer /\ [][NextQueue]_vars

(***************************************************************************)
(* The contexts of one accumulator: every member event for which           *)
(* extractContext finds a context adds it to the list, finalizeSession     *)
(* makes the session's context list of it.  Values are character lists.    *)
(***************************************************************************)
\* what extractContext may bring for the n-th context of the accumulator: a
\* value not seen before, or one that repeats in another spelling, is empty
\* or is blank
ContextChoices(n) ==
  LET letters == <<"a", "b", "c", "d", "e", "f", "g", "h", "i", "j", "k", "l", "m">>
      upper(c) == CHOOSE u \in DOMAIN UpperToLower : UpperToLower[u] = c
      other == CASE n % 4 = 0 -> <<upper(letters[n - 1])>>
                 [] n % 4 = 1 -> <<" ", "a", " ">>
                 [] n % 4 = 2 -> <<>>
                 [] n % 4 = 3 -> <<" ">>
  IN  { [type |-> "file", value |-> <<letters[n]>>], [type |-> "file", value |-> other] }

\* part_002 lines 167-168, 187-188, 214-215
PushContext(ctx) ==
  /\ ~contexts.finalized
  /\ Len(contexts.session) < MaxContexts
  /\ contexts' = [contexts EXCEPT !.session = Append(@, ctx)]
  /\ UNCHANGED <<runVars, jobVars, queueVars, suggestions, recorders>>

\* part_002 line 255
FinalizeContexts ==
  /\ ~contexts.finalized
  /\ contexts' =
       [contexts EXCEPT
          !.finalized = TRUE,
          !.list = LET deduplicated == deduplicateContexts(contexts.session)
                   IN  SubSeq(deduplicated, 1,
                              IF Len(deduplicated) < 10 THEN Len(deduplicated) ELSE 10)]
  /\ UNCHANGED <<runVars, jobVars, queueVars, suggestions, recorders>>

NextContexts ==
  \/ /\ Len(contexts.session) < MaxContexts
     /\ \E ctx \in ContextChoices(Len(contexts.session) + 1) : PushContext(ctx)
  \/ FinalizeContexts

SpecContexts == InitServer /\ [][NextContexts]_vars

(***************************************************************************)
(* Properties                                                              *)
(***************************************************************************)
GapOf(c) == c.curr.timestamp - c.prev.timestamp

\* the call for the event the loop read last has returned
Fresh == call # NoCall /\ call.kind = "return" /\ call.index = Len(rawEvents)

\* C1: when shouldMergeEvents returns a decision for an active event that
\* arrived while an accumulator was open, the event is appended to the open
\* accumulator (and nothing is added to the output) if and only if the
\* decision has shouldMerge = true and confidence >= 0.7; otherwise the open
\* accumulator is finalized as the next output session and a new accumulator
\* is opened with this event as its only member.
C1_Step ==
  (call' # call /\ call'.kind = "return") =>
    IF call'.decision.shouldMerge /\ call'.decision.confidence >= 70000
    THEN /\ sessions' = sessions
         /\ pc' = "loop" => currentSession'.events = Append(currentSession.events, call'.curr)
    ELSE /\ Len(sessions') = Len(sessions) + 1
         /\ SubSeq(sessions', 1, Len(sessions)) = sessions
         /\ Last(sessions').type = "active"
         /\ Last(sessions').start = currentSession.events[1].timestamp
         /\ Last(sessions').end = call'.prev.timestamp + DurationOf(call'.prev)
         /\ pc' = "loop" => currentSession'.events = <<call'.curr>>

C1_MergeIffThreshold == [][C1_Step]_vars

\* a decision of confidence exactly 0.70 has merged the event
C1_Witness ==
  /\ Fresh
  /\ pc = "loop"
  /\ call.decision.shouldMerge
  /\ call.decision.confidence = 70000
  /\ Len(currentSession.events) >= 2
  /\ Last(currentSession.events) = call.curr

\* C2: the sessions aggregateToSessions returns are time-ordered and do not
\* overlap: each session ends no later than the next one starts.
C2_NonOverlapping ==
  pc = "done" =>
    \A k \in 1..(Len(sessions) - 1) : sessions[k].end <= sessions[k + 1].start

\* the maximal runs of idle events among the first n events: for each its
\* first timestamp and the sum of its durations
RECURSIVE IdleRuns(_, _)
IdleRuns(evs, n) ==
  IF n = 0 THEN <<>>
  ELSE IF ~evs[n].isIdle THEN IdleRuns(evs, n - 1)
  ELSE IF n > 1 /\ evs[n - 1].isIdle
  THEN [IdleRuns(evs, n - 1) EXCEPT
          ![Len(IdleRuns(evs, n - 1))].duration = @ + DurationOf(evs[n])]
  ELSE Append(IdleRuns(evs, n - 1),
              [start |-> evs[n].timestamp, duration |-> DurationOf(evs[n])])

IsIdleSession(s) == s.type = "idle"

\* C3: the output holds exactly one idle session per maximal run of idle
\* events, in order, starting at the run's first event and with the sum of
\* the run's durations as its duration; no two adjacent sessions are idle.
C3_IdleCoalescing ==
  pc = "done" =>
    /\ Len(SelectSeq(sessions, IsIdleSession)) = Len(IdleRuns(rawEvents, Len(rawEvents)))
    /\ \A k \in 1..Len(SelectSeq(sessions, IsIdleSession)) :
         /\ SelectSeq(sessions, IsIdleSession)[k].start
              = IdleRuns(rawEvents, Len(rawEvents))[k].start
         /\ SelectSeq(sessions, IsIdleSession)[k].duration
              = IdleRuns(rawEvents, Len(rawEvents))[k].duration
    /\ \A k \in 1..(Len(sessions) - 1) :
         ~(sessions[k].type = "idle" /\ sessions[k + 1].type = "idle")

\* a run of two idle events, of 5 s and 150 s, came out as one session
C3_Witness ==
  /\ pc = "done"
  /\ Len(rawEvents) = 3
  /\ rawEvents[2].isIdle /\ rawEvents[3].isIdle /\ ~rawEvents[1].isIdle
  /\ DurationOf(rawEvents[2]) # DurationOf(rawEvents[3])
  /\ Len(sessions) = 2
  /\ sessions[2].type = "idle"
  /\ sessions[2].duration = 155

\* neither event of the call resolves to a category
NoCategoryForBoth(c) ==
  /\ getCategoryForEvent(c.prev, categoryLookup) = NULL
  /\ getCategoryForEvent(c.curr, categoryLookup) = NULL

IsConservativeSplit(c) ==
  c.kind = "return" /\ ~c.decision.shouldMerge /\ c.decision.confidence = 50000

\* C4: whenever no category is found for either event and no AI collaborator
\* is configured, shouldMergeEvents returns shouldMerge = false with
\* confidence exactly 0.5, for every such pair of events.
C4_NoCategoryNoAI ==
  (call # NoCall /\ ~aiAvailable /\ NoCategoryForBoth(call)) => IsConservativeSplit(call)

\* none of the rules that come before the category comparison decides the pair
ReachesCategoryComparison(c) ==
  /\ GapOf(c) <= 300
  /\ ~(c.prev.isIdle /\ DurationOf(c.prev) > 120)
  /\ IF c.prev.appName = c.curr.appName
     THEN /\ isBrowser(c.prev.appName)
          /\ Truthy(c.prev.url) /\ Truthy(c.curr.url)
          /\ extractDomain(c.prev.url) # extractDomain(c.curr.url)
          /\ ~areUrlsRelated(c.prev.url, c.curr.url)
     ELSE ~areAppsRelated(c.prev.appName, c.curr.appName)

\* C4 (amended): whenever the pair is left to the category comparison (at
\* most 300 s apart, prev not an idle event of more than 120 s, and either
\* the same browser with two URLs of different, unrelated domains or two
\* applications of no common related-app group), no category is found for
\* either event and no AI collaborator is configured, shouldMergeEvents
\* returns shouldMerge = false with confidence exactly 0.5; the decision
\* cache is empty in every such state.
C4_NoCategoryNoAI_Amended ==
  (call # NoCall /\ ~aiAvailable /\ NoCategoryForBoth(call) /\ ReachesCategoryComparison(call))
    => (IsConservativeSplit(call) /\ aiDecisionCache = EmptyMap)

\* two uncategorized applications, 2 s apart, were split with confidence 0.5
C4_Witness ==
  /\ pc = "returned"
  /\ ~aiAvailable
  /\ call.prev.appName = "Notes" /\ call.curr.appName = "Cursor"
  /\ GapOf(call) = 2
  /\ NoCategoryForBoth(call)
  /\ ~call.decision.shouldMerge
  /\ call.decision.confidence = 50000

\* C5: when the decision is left to the AI collaborator and the
\* classification fails (the call fails or times out, or the response cannot
\* be parsed), shouldMergeEvents returns shouldMerge = false with confidence
\* 0.5 and aggregateToSessions goes on: the event opens a new session and the
\* loop continues to the end of the input.
C5_AIFailureIsSplit ==
  (call # NoCall /\ call.resp # NoResp /\ call.resp.kind \in {"error", "unparseable"}) =>
    /\ IsConservativeSplit(call)
    /\ call.index = Len(rawEvents) =>
         /\ pc \in {"loop", "done"}
         /\ pc = "loop" => currentSession.events = <<call.curr>>

\* the AI call failed for the second event and the run returned all three
\* events in sessions
C5_Witness ==
  /\ pc = "done"
  /\ Len(rawEvents) = 3
  /\ call # NoCall /\ call.resp # NoResp /\ call.resp.kind = "error"
  /\ Len(sessions) >= 2

\* C6: shouldMergeEvents never raises, whatever the events, the category
\* lookup (stored wildcard patterns included), the cache and the AI
\* collaborator.
C6_NeverRaises == call # NoCall => call.kind # "raise"

\* C7: a pair more than 300 s apart is never merged: the decision is
\* shouldMerge = false with confidence 1.0, taken without the cache or the AI
\* collaborator, and the later event opens a new session after the one that
\* holds the earlier event; a gap of exactly 300 s is not a large gap.
C7_LargeGap ==
  /\ (call # NoCall /\ GapOf(call) > 300) =>
       /\ call.kind = "return"
       /\ ~call.decision.shouldMerge
       /\ call.decision.confidence = 100000
       /\ ~call.cacheRead
       /\ call.resp = NoResp
       /\ (call.index = Len(rawEvents) /\ pc = "loop") =>
            /\ currentSession.events = <<call.curr>>
            /\ Last(sessions).type = "active"
            /\ Last(sessions).end = call.prev.timestamp + DurationOf(call.prev)
  /\ (call # NoCall /\ GapOf(call) = 300 /\ call.kind = "return") =>
       call.decision.reason[1] # "Large time gap (%dmin)"

\* the same application 301 s later started a new session
C7_Witness ==
  /\ Fresh
  /\ pc = "loop"
  /\ GapOf(call) = 301
  /\ call.prev.appName = call.curr.appName
  /\ currentSession.events = <<call.curr>>
  /\ Len(sessions) >= 1

\* the call was decided by decideByCategory
DecidedByCategory(c) ==
  \/ c.kind = "raise"
  \/ c.cacheKey # NoKey
  \/ /\ c.kind = "return"
     /\ c.decision.reason[1] \in {"Same category (%s)", "Different categories (%s -> %s)"}

IsMerge(c, confidence) ==
  c.kind = "return" /\ c.decision.shouldMerge /\ c.decision.confidence = confidence

\* C8: for the same application name, at most 300 s apart and prev not idle:
\* a browser with both URLs merges with 1.0 ("Same app and domain") when the
\* two URLs have the same domain (or are the same URL), merges with 0.9
\* when the domains differ but are related, and is decided by the category
\* comparison for any other pair of domains; every other case merges with 1.0.
C8_SameApp ==
  (/\ call # NoCall
   /\ call.prev.appName = call.curr.appName
   /\ GapOf(call) <= 300
   /\ ~call.prev.isIdle) =>
    IF isBrowser(call.prev.appName) /\ Truthy(call.prev.url) /\ Truthy(call.curr.url)
    THEN IF \/ call.prev.url = call.curr.url
            \/ /\ extractDomain(call.prev.url) # NULL
               /\ extractDomain(call.prev.url) = extractDomain(call.curr.url)
         THEN IsMerge(call, 100000) /\ call.decision.reason = <<"Same app and domain">>
         ELSE IF /\ extractDomain(call.prev.url) # NULL
                 /\ extractDomain(call.curr.url) # NULL
                 /\ areUrlsRelated(call.prev.url, call.curr.url)
         THEN IsMerge(call, 90000)
         ELSE DecidedByCategory(call)
    ELSE IsMerge(call, 100000)

\* C9: "Cursor" followed 2 s later by "Ghostty", both resolved to
\* "development", merges with confidence 0.9 for the reason "Related apps in
\* same category (development)".
C9_CursorGhostty ==
  (/\ call # NoCall
   /\ call.prev.appName = "Cursor" /\ call.curr.appName = "Ghostty"
   /\ ~call.prev.isIdle
   /\ GapOf(call) = 2
   /\ getCategoryForEvent(call.prev, categoryLookup) = "development"
   /\ getCategoryForEvent(call.curr, categoryLookup) = "development") =>
    /\ IsMerge(call, 90000)
    /\ call.decision.reason = <<"Related apps in same category (%s)", "development">>

\* C10: for two different application names of one related-app group, at
\* most 300 s apart and prev not idle, shouldMergeEvents returns a merge of
\* confidence 0.9 when both events resolve to the same category and a merge
\* of confidence 0.75 in every other case; neither the cache nor the AI
\* collaborator is consulted.
C10_RelatedApps ==
  (/\ call # NoCall
   /\ call.prev.appName # call.curr.appName
   /\ areAppsRelated(call.prev.appName, call.curr.appName)
   /\ GapOf(call) <= 300
   /\ ~call.prev.isIdle) =>
    /\ call.kind = "return"
    /\ ~call.cacheRead
    /\ call.resp = NoResp
    /\ IF /\ Truthy(getCategoryForEvent(call.prev, categoryLookup))
          /\ getCategoryForEvent(call.prev, categoryLookup)
               = getCategoryForEvent(call.curr, categoryLookup)
       THEN IsMerge(call, 90000)
       ELSE IsMerge(call, 75000)

\* the lookup finds a category for the event
Resolves(event) ==
  /\ getCategoryForEvent(event, categoryLookup) # RAISE
  /\ Truthy(getCategoryForEvent(event, categoryLookup))

\* C11: a call that reaches the category comparison with a category found for
\* both events returns at once, a merge of confidence 0.85 when the two
\* categories are equal and a no-merge of confidence 0.9 when they differ,
\* without reading or changing the decision cache, calling the AI
\* collaborator or storing a suggestion.
C11_Step ==
  (/\ pc = "ready"
   /\ call' # call
   /\ ReachesCategoryComparison(call')
   /\ Resolves(call'.prev) /\ Resolves(call'.curr)) =>
    /\ pc' = "returned"
    /\ IF getCategoryForEvent(call'.prev, categoryLookup)
            = getCategoryForEvent(call'.curr, categoryLookup)
       THEN IsMerge(call', 85000)
       ELSE /\ call'.kind = "return"
            /\ ~call'.decision.shouldMerge
            /\ call'.decision.confidence = 90000
    /\ ~call'.cacheRead
    /\ call'.resp = NoResp
    /\ aiDecisionCache' = aiDecisionCache
    /\ suggestions' = suggestions

C11_BothCategorized == [][C11_Step]_vars

\* two categorized applications were split with 0.9 although the cache held
\* a decision for their key
C11_Witness ==
  /\ pc = "returned"
  /\ call.prev.appName = "Notes" /\ call.curr.appName = "Cursor"
  /\ GapOf(call) = 2
  /\ Resolves(call.prev) /\ Resolves(call.curr)
  /\ buildCacheKey(call.prev, call.curr) \in DOMAIN aiDecisionCache
  /\ ~call.decision.shouldMerge
  /\ call.decision.confidence = 90000

\* the duration of an event in seconds, 5 when it has none
SecondsOf(event) == IF event.duration = <<>> THEN 5 ELSE event.duration[1]

\* C13: every active session that enters the output starts at the timestamp
\* of the first event of the accumulator it was made of, ends at the
\* timestamp of the accumulator's last event plus that event's duration (5 s
\* when absent) and has duration = end - start; once in the output an active
\* session does not change.
C13_Step ==
  /\ \A k \in 1..Len(sessions) :
       sessions[k].type = "active" => (Len(sessions') >= k /\ sessions'[k] = sessions[k])
  /\ (Len(sessions') > Len(sessions) /\ sessions'[Len(sessions) + 1].type = "active") =>
       /\ currentSession # NoSession
       /\ sessions'[Len(sessions) + 1].start = currentSession.events[1].timestamp
       /\ sessions'[Len(sessions) + 1].end
            = Last(currentSession.events).timestamp + SecondsOf(Last(currentSession.events))
       /\ sessions'[Len(sessions) + 1].duration
            = sessions'[Len(sessions) + 1].end - sessions'[Len(sessions) + 1].start
  /\ \A k \in (Len(sessions) + 2)..Len(sessions') : sessions'[k].type = "idle"

C13_ActiveSessionTimes == [][C13_Step]_vars

\* an event of 10 s at t = 0 and an event of 5 s at t = 2 made one session of
\* 7 s
C13_Witness ==
  /\ pc = "done"
  /\ Len(rawEvents) = 2
  /\ rawEvents[1].duration = <<10>>
  /\ Len(sessions) = 1
  /\ sessions[1].start = FirstTimestamp /\ sessions[1].end = FirstTimestamp + 7
  /\ sessions[1].duration = 7

\* C14: every session of the output, active or idle, has duration equal to
\* end - start.
C14_DurationIsEndMinusStart ==
  \A k \in 1..Len(sessions) : sessions[k].duration = sessions[k].end - sessions[k].start

\* the longest duration of an event of the batch
MaxSeconds(events) ==
  CHOOSE d \in {SecondsOf(events[i]) : i \in 1..Len(events)} :
    \A i \in 1..Len(events) : SecondsOf(events[i]) <= d

\* C15: between the end of each returned session and the start of the next
\* there is no gap larger than one event's duration.
C15_NoLargeGaps ==
  pc = "done" =>
    \A k \in 1..(Len(sessions) - 1) :
      sessions[k + 1].start - sessions[k].end <= MaxSeconds(rawEvents)

\* C15 (amended): the returned sessions cover the timestamps of the input:
\* every session starts at the timestamp of an input event and ends at the
\* timestamp of an input event or at that timestamp plus the duration of
\* that event, and every input event's timestamp lies between the start of
\* a session and the timestamp of the event the end of that session is
\* taken from.
C15_CoversEveryEvent ==
  pc = "done" =>
    /\ \A i \in 1..Len(rawEvents) :
         \E k \in 1..Len(sessions), j \in 1..Len(rawEvents) :
           /\ sessions[k].start <= rawEvents[i].timestamp
           /\ rawEvents[i].timestamp <= rawEvents[j].timestamp
           /\ sessions[k].end \in {rawEvents[j].timestamp,
                                   rawEvents[j].timestamp + DurationOf(rawEvents[j])}
    /\ \A k \in 1..Len(sessions) :
         \E i \in 1..Len(rawEvents) : rawEvents[i].timestamp = sessions[k].start

\* two sessions 296 s apart cover a batch of two events
C15_Witness ==
  /\ pc = "done"
  /\ Len(rawEvents) = 2
  /\ Len(sessions) = 2
  /\ sessions[2].start - sessions[1].end = 296
  /\ sessions[1].start = rawEvents[1].timestamp
  /\ sessions[2].start = rawEvents[2].timestamp

\* C16: the precedingCategory of an idle session is the category of the
\* session right before it in the output, which is an active session with a
\* category of VALID_CATEGORIES; it is absent exactly when the idle session
\* is the first of the output, and stays as it is when the session is
\* extended.
C16_PrecedingCategory ==
  \A k \in 1..Len(sessions) :
    sessions[k].type = "idle" =>
      IF k = 1
      THEN sessions[k].precedingCategory = NULL
      ELSE /\ sessions[k - 1].type = "active"
           /\ sessions[k - 1].category \in VALID_CATEGORIES
           /\ sessions[k].precedingCategory = sessions[k - 1].category

\* an idle session after a development session was extended by a second
\* idle event and still records development
C16_Witness ==
  /\ Len(rawEvents) = 3
  /\ rawEvents[2].isIdle /\ rawEvents[3].isIdle
  /\ Len(sessions) = 2
  /\ sessions[1].category = "development"
  /\ sessions[2].type = "idle"
  /\ sessions[2].precedingCategory = "development"
  /\ sessions[2].duration = SecondsOf(rawEvents[2]) + SecondsOf(rawEvents[3])

\* the whole domain d matches the wildcard p, letters compared without
\* case: "*" stands for any run of characters, any other character for itself
RECURSIVE Wildcard(_, _)
Wildcard(d, p) ==
  IF p = <<>> THEN d = <<>>
  ELSE IF Head(p) = "*"
  THEN \E k \in 0..Len(d) : Wildcard(SubSeq(d, k + 1, Len(d)), Tail(p))
  ELSE d # <<>> /\ ToLowerCase(<<Head(d)>>) = ToLowerCase(<<Head(p)>>)
       /\ Wildcard(Tail(d), Tail(p))

\* the category of the first pattern of the list that matches the domain
FirstWildcard(domain, patterns) ==
  IF \E k \in 1..Len(patterns) : Wildcard(CharsOf(domain), CharsOf(patterns[k].pattern))
  THEN patterns[CHOOSE k \in 1..Len(patterns) :
                  /\ Wildcard(CharsOf(domain), CharsOf(patterns[k].pattern))
                  /\ \A j \in 1..(k - 1) :
                       ~Wildcard(CharsOf(domain), CharsOf(patterns[j].pattern))].category
  ELSE NULL

\* the resolution order: bundle id, application name, exact domain, wildcard
CategoryFor(event, lookup) ==
  IF lookup = NoLookup THEN NULL
  ELSE IF event.bundleIdentifier # NULL /\ event.bundleIdentifier \in DOMAIN lookup.bundles
  THEN lookup.bundles[event.bundleIdentifier]
  ELSE IF event.appName \in DOMAIN lookup.apps
  THEN lookup.apps[event.appName]
  ELSE IF event.url = NULL \/ extractDomain(event.url) = NULL
  THEN NULL
  ELSE IF extractDomain(event.url) \in DOMAIN lookup.domains
  THEN lookup.domains[extractDomain(event.url)]
  ELSE FirstWildcard(extractDomain(event.url), lookup.domainPatterns)

\* C17: getCategoryForEvent returns the first match in the order bundle id,
\* application name, exact domain (for an event with a URL), first wildcard
\* pattern of the list that matches the whole domain; it returns null when
\* nothing matches or no snapshot is loaded, and changes no state.  Stated
\* for the lookup that opens a session for the first active event.
C17_Step ==
  (/\ pc = "loop"
   /\ currentSession = NoSession
   /\ Len(rawEvents') = Len(rawEvents) + 1
   /\ ~Last(rawEvents').isIdle) =>
    /\ pc' = "loop"
    /\ currentSession'.category = CategoryFor(Last(rawEvents'), categoryLookup)
    /\ UNCHANGED <<categoryStore, categoryLookup, aiDecisionCache, suggestions>>

C17_ResolutionOrder == [][C17_Step]_vars

\* C12: a second run on the same batch with the same category snapshot
\* returns the session list of the first run, ids included.
C12_Idempotent ==
  (pc = "done" /\ previous # NoRun /\ snapshot = previous.snapshot) =>
    sessions = previous.sessions

\* C18: a run whose category queries reject at its start is not failed by
\* them.
C18_RefreshFailureTolerated == pc # "refresh_failed"

\* C19: while a run is in its loop the lookup of the service is the snapshot
\* the run built at its start.
C19_SnapshotStable == pc = "loop" => categoryLookup = snapshot

\* C20: two calls that came past the cache read with the same cache key
\* returned equal decisions.
C20_SameKeySameDecision ==
  \A a \in decided : \A b \in decided : a[1] = b[1] => a[2] = b[2]

\* C22: the decision a call returns has a confidence between 0 and 1, also
\* when the AI collaborator built it and when the cache served it.
C22_ConfidenceInUnitInterval ==
  pc = "returned" =>
    /\ 0 <= call.decision.confidence
    /\ call.decision.confidence <= 100000

\* the answer of the AI collaborator belongs to this call, not to the cache
FreshFromAI(c) == c.kind = "askAI" /\ c.resp.kind = "object"

\* C23: the suggestion store is called, and a suggestion is recorded, only
\* for a decision this call obtained from the AI collaborator, with a
\* suggested category and a confidence of at least 0.6; a call that returns
\* a rule-based decision, a cached decision or a conservative split leaves
\* the suggestions as they are.
C23_Step ==
  /\ pc' = "d_sink" =>
       /\ FreshFromAI(call')
       /\ Truthy(call'.aiDecision.suggestedCategory)
       /\ call'.aiDecision.confidence >= SUGGEST_CONFIDENCE
  /\ suggestions' # suggestions =>
       /\ pc = "d_sink"
       /\ FreshFromAI(call)
       /\ call.aiDecision = askAIForBoundary(call.resp)
       /\ Truthy(call.aiDecision.suggestedCategory)
       /\ call.aiDecision.confidence >= SUGGEST_CONFIDENCE
  /\ (pc = "ready" /\ pc' = "returned") => suggestions' = suggestions
  /\ (pc = "d_ai" /\ pc' = "returned") =>
       /\ suggestions' = suggestions
       /\ ~StoresSuggestion(call'.decision)

C23_SuggestionOnlyFromAI == [][C23_Step]_vars

\* a suggestion recorded for an answer without a confidence (0.6 by default),
\* and a cached decision with a suggested category returned without one
C23_Witness ==
  /\ pc = "returned"
  /\ call.stored
  /\ call.resp.kind = "object"
  /\ call.resp.confidence = <<>>
  /\ Len(suggestions) = 1
  /\ suggestions[1].confidence = DEFAULT_AI_CONFIDENCE

C23_WitnessCached ==
  /\ pc = "returned"
  /\ call.cacheRead
  /\ call.resp = NoResp
  /\ call.cacheKey # NoKey
  /\ Truthy(call.decision.suggestedCategory)
  /\ call.decision.confidence >= SUGGEST_CONFIDENCE
  /\ suggestions = <<>>

\* the active sessions of the returned list that are not distraction
ProductiveIndexes ==
  {k \in 1..Len(sessions) :
     sessions[k].type = "active" /\ sessions[k].category # "distraction"}

\* C25: longestFocus is the first, in list order, of the active
\* non-distraction sessions of greatest duration, with its category,
\* duration and start, and it is null exactly when the list has no such
\* session.
C25_LongestFocus ==
  pc = "done" =>
    /\ (summary.patterns.longestFocus = NoFocus) <=> (ProductiveIndexes = {})
    /\ ProductiveIndexes # {} =>
         \E k \in ProductiveIndexes :
           /\ \A j \in ProductiveIndexes :
                /\ sessions[j].duration <= sessions[k].duration
                /\ j < k => sessions[j].duration < sessions[k].duration
           /\ summary.patterns.longestFocus =
                [category |-> sessions[k].category,
                 duration |-> sessions[k].duration,
                 start |-> sessions[k].start]

\* two non-distraction sessions of the same, greatest duration: the first is
\* reported
C25_Witness ==
  /\ pc = "done"
  /\ Len(sessions) >= 2
  /\ \E j \in ProductiveIndexes, k \in ProductiveIndexes :
       /\ j < k
       /\ sessions[j].duration = sessions[k].duration
       /\ \A h \in ProductiveIndexes : sessions[h].duration <= sessions[j].duration
       /\ summary.patterns.longestFocus.start = sessions[j].start
       /\ sessions[j].start # sessions[k].start

\* C26: the trigger of every distraction block names the category of the
\* session right before the distraction session in the returned list, and
\* it is "start of tracking" only for a distraction session that is the
\* first of the list.
C26_TriggerNamesPreceding ==
  pc = "done" =>
    LET at == DistractionIndexes(sessions, 1)
        blocks == summary.patterns.distractionBlocks
    IN  \A j \in 1..Len(blocks) :
          /\ blocks[j].trigger = <<"start of tracking">> => at[j] = 1
          /\ (at[j] > 1 /\ sessions[at[j] - 1].type = "active") =>
               blocks[j].trigger = <<"after ", sessions[at[j] - 1].category>>

\* summed duration of the active non-distraction sessions that start in hour h
RECURSIVE ProductiveIn(_, _)
ProductiveIn(h, k) ==
  IF k > Len(sessions) THEN 0
  ELSE (IF k \in ProductiveIndexes /\ UTCHours(sessions[k].start) = h
        THEN sessions[k].duration ELSE 0) + ProductiveIn(h, k + 1)

\* the index of the first productive session that starts in hour h
FirstIn(h) ==
  CHOOSE k \in ProductiveIndexes :
    /\ UTCHours(sessions[k].start) = h
    /\ \A j \in ProductiveIndexes : UTCHours(sessions[j].start) = h => k <= j

ProductiveHours == {UTCHours(sessions[k].start) : k \in ProductiveIndexes}

\* C27: peakProductivityHour is the UTC hour of the session starts with the
\* greatest summed duration of active non-distraction sessions, the first
\* hour met in list order on a tie, and it is null exactly when the list has
\* no active non-distraction session.
C27_PeakHour ==
  pc = "done" =>
    /\ (summary.patterns.peakProductivityHour = <<>>) <=> (ProductiveIndexes = {})
    /\ summary.patterns.peakProductivityHour # <<>> =>
         LET peak == summary.patterns.peakProductivityHour[1]
         IN  /\ peak \in ProductiveHours
             /\ peak \in 0..23
             /\ \A h \in ProductiveHours :
                  /\ ProductiveIn(h, 1) <= ProductiveIn(peak, 1)
                  /\ ProductiveIn(h, 1) = ProductiveIn(peak, 1) => FirstIn(peak) <= FirstIn(h)

\* C28: a run that read no event, or an event with a negative duration,
\* returns the empty summary and no session.
C28_EmptySummaryOnBadInput ==
  (/\ pc = "done"
   /\ \/ rawEvents = <<>>
      \/ \E i \in 1..Len(rawEvents) : DurationOf(rawEvents[i]) < 0) =>
    /\ summary = emptyDaySummary
    /\ sessions = <<>>

\* the call returned without asking the AI collaborator
ServedFromCache ==
  /\ call # NoCall
  /\ call.kind = "return"
  /\ call.cacheRead
  /\ call.resp = NoResp
  /\ call.cacheKey \in DOMAIN aiDecisionCache
  /\ call.decision = aiDecisionCache[call.cacheKey]

\* C21: a decision that was stored more than 24 hours before a call is not
\* returned by that call; the call goes on as after a cache miss.
C21_ExpiredEntryIsMiss ==
  (/\ previous # NoRun
   /\ previous.hours > CACHE_TTL
   /\ call # NoCall
   /\ call.cacheKey \in DOMAIN previous.cache) =>
    ~ServedFromCache

\* C24: whatever calls of createOrUpdateSuggestion have settled, also from
\* concurrent runs, the table holds at most one pending suggestion per
\* (type, value), and a call that settles for an existing pending
\* suggestion leaves its occurrence count one higher than it was.
C24_Step ==
  /\ \A item \in SinkItems :
       Cardinality(PendingRows(suggestions', item.type, item.value)) <= 1
  /\ \A r \in Recorders :
       (/\ recorders[r] # IdleRecorder
        /\ recorders'[r] = IdleRecorder
        /\ PendingRows(suggestions, recorders[r].item.type, recorders[r].item.value) # {}) =>
         /\ Len(suggestions') = Len(suggestions)
         /\ \E k \in PendingRows(suggestions, recorders[r].item.type, recorders[r].item.value) :
              suggestions'[k].occurrenceCount = suggestions[k].occurrenceCount + 1

C24_IdempotentSink == [][C24_Step]_vars

\* the same, for the occurrence count alone
C24_CountStep ==
  \A r \in Recorders :
    (/\ recorders[r] # IdleRecorder
     /\ recorders'[r] = IdleRecorder
     /\ recorders[r].existing # NoExisting) =>
      suggestions'[recorders[r].existing.id].occurrenceCount
        = suggestions[recorders[r].existing.id].occurrenceCount + 1

C24_CountedOnce == [][C24_CountStep]_vars

\* the stored daily sessions were computed from at least n events
Reflects(n) == dailyRow # NoRow /\ dailyRow.events >= n

\* C29: after a sync has ingested the n-th event of the (device, date), a
\* job eventually reads the events and stores daily sessions that reflect
\* all n of them, whatever state an earlier job for the (device, date) is
\* in.  Stated for the syncs after which the device may send more, and met
\* as well when it does send more.
C29_SyncedEventsAggregated ==
  \A n \in 1..(MaxSyncs - 1) : (ingested = n) ~> (Reflects(n) \/ ingested > n)

\* what the queue does guarantee: a job that has not started when the n-th
\* event is in the table reads it
C29_QueuedJobAggregates ==
  \A n \in 1..MaxSyncs :
    (ingested = n /\ job.state \in {"delayed", "waiting"}) ~> Reflects(n)

\* the job with the id of the (device, date) is queued or running
JobPending == job.state \in {"delayed", "waiting", "active"}

\* C30: the endpoint answers with the stored row when there is one, and
\* with 202 when there is none and the job is queued or running; it does not
\* compute the sessions itself then.
C30_Step ==
  response' # response =>
    IF dailyRow # NoRow
    THEN response' = [status |-> 200, cached |-> TRUE, events |-> dailyRow.events]
    ELSE JobPending => response'.status = 202

C30_NoSynchronousCompute == [][C30_Step]_vars

\* the sum of f[x] over the set xs
RECURSIVE Total(_, _)
Total(f, xs) ==
  IF xs = {} THEN 0
  ELSE LET x == CHOOSE y \in xs : TRUE IN f[x] + Total(f, xs \ {x})

\* C39: in the summary a run returns, sessionCount is the number of
\* sessions, totalActive and totalIdle are the sums of the durations of the
\* active and of the idle sessions, the durations of byCategory add up to
\* totalActive and its session counts to the number of active sessions.
C39_SummaryTotals ==
  summary # NoSummary =>
    LET active == {k \in 1..Len(sessions) : sessions[k].type = "active"}
        idle == {k \in 1..Len(sessions) : sessions[k].type = "idle"}
        durations == [k \in 1..Len(sessions) |-> sessions[k].duration]
        by == summary.byCategory
    IN  /\ summary.sessionCount = Len(sessions)
        /\ summary.totalActive = Total(durations, active)
        /\ summary.totalIdle = Total(durations, idle)
        /\ Total([cat \in DOMAIN by |-> by[cat].duration], DOMAIN by) = summary.totalActive
        /\ Total([cat \in DOMAIN by |-> by[cat].sessions], DOMAIN by) = Cardinality(active)

\* a summary over active sessions of two categories and an idle session
C39_Witness ==
  /\ summary # NoSummary
  /\ Cardinality(DOMAIN summary.byCategory) = 2
  /\ summary.totalIdle > 0
  /\ summary.sessionCount = 3

\* the member lists one after the other
RECURSIVE Flatten(_)
Flatten(lists) ==
  IF lists = <<>> THEN <<>> ELSE Head(lists) \o Flatten(Tail(lists))

\* C40: the sessions of a finished run partition the batch: the member
\* lists, one after the other, are the input in its order, so every event
\* is in exactly one session and the members of a session are consecutive;
\* the members of an active session are non-idle (no idle event lies
\* between two of them) and at least one, those of an idle session are
\* idle; and there are no more sessions than events.
C40_Partition ==
  pc = "done" =>
    /\ Len(members) = Len(sessions)
    /\ Flatten(members) = rawEvents
    /\ \A k \in 1..Len(sessions) :
         /\ members[k] # <<>>
         /\ sessions[k].start = members[k][1].timestamp
         /\ \A i \in 1..Len(members[k]) :
              members[k][i].isIdle <=> (sessions[k].type = "idle")
    /\ Len(sessions) <= Len(rawEvents)

\* a finished run with an active session of two members and an idle session
C40_Witness ==
  /\ pc = "done"
  /\ Len(members) = Len(sessions)
  /\ \E k \in 1..Len(sessions) : sessions[k].type = "active" /\ Len(members[k]) = 2
  /\ \E k \in 1..Len(sessions) : sessions[k].type = "idle"

\* the adjacent member pairs of a session that the claim counts: the
\* application differs, or it is the same, both events carry a URL and the
\* extracted domains differ
SwitchPairs(m) ==
  { i \in 1..(Len(m) - 1) :
      \/ m[i].appName # m[i + 1].appName
      \/ /\ m[i].appName = m[i + 1].appName
         /\ m[i].url # NULL /\ m[i + 1].url # NULL
         /\ extractDomain(m[i].url) # extractDomain(m[i + 1].url) }

\* C32: contextSwitches of every active session is the number of adjacent
\* member pairs whose application differs or, the application being the
\* same, that both carry a URL with different extracted domains; it is 0
\* for a session of one event and never more than the members less one.
C32_ContextSwitches ==
  /\ Len(members) = Len(sessions)
  /\ \A k \in 1..Len(sessions) :
       sessions[k].type = "active" =>
         /\ sessions[k].contextSwitches = Cardinality(SwitchPairs(members[k]))
         /\ Len(members[k]) = 1 => sessions[k].contextSwitches = 0
         /\ sessions[k].contextSwitches <= Len(members[k]) - 1

\* a session of three members of one browser: the domain changes between
\* the first two and not between the last two
C32_Witness ==
  /\ Len(members) = Len(sessions)
  /\ \E k \in 1..Len(sessions) :
       /\ sessions[k].type = "active"
       /\ Len(members[k]) = 3
       /\ members[k][1].appName = members[k][2].appName
       /\ sessions[k].contextSwitches = 1

\* the category the claim gives a session of members m under the lookup:
\* that of the first member that resolves, "other" when none resolves or
\* the value is outside the closed set
ResolvesIn(event, lookup) ==
  getCategoryForEvent(event, lookup) \notin {NULL, RAISE}

FirstResolvedCategory(m, lookup) ==
  LET resolved == {i \in 1..Len(m) : ResolvesIn(m[i], lookup)}
  IN  IF resolved = {} THEN "other"
      ELSE LET first == CHOOSE i \in resolved : \A j \in resolved : i <= j
               cat == getCategoryForEvent(m[first], lookup)
           IN  IF cat \in VALID_CATEGORIES THEN cat ELSE "other"

\* C34: the category of every active session is one of the six, and it is
\* the category of the first member, in order, that resolves in the lookup
\* snapshot of the run, "other" when no member resolves or the resolved
\* value is outside the closed set.
C34_FirstResolvedCategory ==
  /\ Len(members) = Len(sessions)
  /\ \A k \in 1..Len(sessions) :
       sessions[k].type = "active" =>
         /\ sessions[k].category \in VALID_CATEGORIES
         /\ sessions[k].category = FirstResolvedCategory(members[k], snapshot)

\* a session whose first member does not resolve and whose second does, and
\* a session whose first member resolves outside the closed set
C34_WitnessLater ==
  /\ Len(members) = Len(sessions)
  /\ \E k \in 1..Len(sessions) :
       /\ sessions[k].type = "active"
       /\ Len(members[k]) >= 2
       /\ ~ResolvesIn(members[k][1], snapshot)
       /\ ResolvesIn(members[k][2], snapshot)
       /\ sessions[k].category # "other"

C34_WitnessOutside ==
  /\ Len(members) = Len(sessions)
  /\ \E k \in 1..Len(sessions) :
       /\ sessions[k].type = "active"
       /\ getCategoryForEvent(members[k][1], snapshot) = "writing"
       /\ sessions[k].category = "other"

\* the event is one of the kind the claim speaks of: non-idle, of a
\* non-browser application or of a browser on a domain
OnActivity(e) ==
  /\ ~e.isIdle
  /\ isBrowser(e.appName) => extractDomain(e.url) # NULL

\* b continues the activity of a: the same browser on the same domain or
\* the same non-browser application, at most 300 s later
SameActivity(a, b) ==
  /\ OnActivity(a) /\ OnActivity(b)
  /\ a.appName = b.appName
  /\ isBrowser(a.appName) => extractDomain(a.url) = extractDomain(b.url)
  /\ b.timestamp - a.timestamp <= 300

\* the batch read is one such sequence
OneActivity ==
  /\ rawEvents # <<>>
  /\ OnActivity(rawEvents[1])
  /\ \A i \in 1..(Len(rawEvents) - 1) : SameActivity(rawEvents[i], rawEvents[i + 1])

\* C31: a run over a sequence of non-idle events of the same browser on the
\* same domain, or of the same non-browser application, each at most 300 s
\* after the one before, returns exactly one active session made of all of
\* them, whatever the store, the decision cache and the AI's availability.
C31_OneSession ==
  (OneActivity /\ pc \in {"done", "failed"}) =>
    /\ pc = "done"
    /\ Len(sessions) = 1
    /\ sessions[1].type = "active"
    /\ members = <<rawEvents>>

\* what the code does guarantee: when the run returns, the sequence is one
\* active session
C31_OneSessionWhenReturned ==
  (OneActivity /\ pc = "done") =>
    /\ Len(sessions) = 1
    /\ sessions[1].type = "active"
    /\ members = <<rawEvents>>

\* the events read and the events recorded for the sessions stay as they are
EventsKept ==
  /\ Len(rawEvents') >= Len(rawEvents)
  /\ SubSeq(rawEvents', 1, Len(rawEvents)) = rawEvents
  /\ Len(members') >= Len(members)
  /\ \A k \in 1..Len(members) :
       /\ Len(members'[k]) >= Len(members[k])
       /\ SubSeq(members'[k], 1, Len(members[k])) = members[k]

\* C36 as stated: no step changes a session that is in the output list, and
\* none changes an event.
C36_Step ==
  /\ Len(sessions') >= Len(sessions)
  /\ SubSeq(sessions', 1, Len(sessions)) = sessions
  /\ EventsKept

C36_AppendedNeverModified == [][C36_Step]_vars

\* C36, amended: no step changes an active session that is in the output
\* list or removes a session from it; an idle session changes only while it
\* is the last of the list and the step reads an idle event, which moves its
\* end to that event's timestamp and adds that event's duration to its
\* duration; no step changes an event.
C36_AmendedStep ==
  /\ Len(sessions') >= Len(sessions)
  /\ \A k \in 1..Len(sessions) :
       \/ sessions'[k] = sessions[k]
       \/ /\ sessions[k].type = "idle"
          /\ k = Len(sessions)
          /\ Len(rawEvents') = Len(rawEvents) + 1
          /\ Last(rawEvents').isIdle
          /\ sessions'[k] = [sessions[k] EXCEPT
                               !.end = Last(rawEvents').timestamp,
                               !.duration = @ + SecondsOf(Last(rawEvents'))]
  /\ EventsKept

C36_ActiveNeverModified == [][C36_AmendedStep]_vars

\* an active session followed in the output by an idle session that a
\* second idle event has extended
C36_Witness ==
  /\ Len(sessions) = 2
  /\ sessions[1].type = "active"
  /\ sessions[2].type = "idle"
  /\ Len(members) = 2 /\ Len(members[2]) = 2

\* the step invokes shouldMergeEvents
Invokes ==
  /\ call' # NoCall
  /\ call = NoCall \/ call'.index # call.index

\* C35: shouldMergeEvents is invoked only on reading an event, for that
\* event and never for the first of the batch (so at most once per event and
\* at most n - 1 times for n events), with the last member of the open
\* accumulator as prev and the event read as curr, neither of them idle; and
\* no decision it returns is that of the idle rule.
C35_Step ==
  /\ Invokes =>
       /\ Len(rawEvents') = Len(rawEvents) + 1
       /\ call'.index = Len(rawEvents')
       /\ call'.index >= 2
       /\ call = NoCall \/ call'.index > call.index
       /\ currentSession # NoSession
       /\ call'.prev = Last(currentSession.events)
       /\ call'.curr = Last(rawEvents')
       /\ ~call'.prev.isIdle /\ ~call'.curr.isIdle
  /\ (call' # NoCall /\ call'.kind = "return") =>
       call'.decision.reason # <<"Extended idle period">>

C35_DecideCalls == [][C35_Step]_vars

\* the third event of a batch is decided against the second, after an idle
\* event of more than 120 s came first
C35_Witness ==
  /\ Len(rawEvents) = 3
  /\ rawEvents[1].isIdle /\ SecondsOf(rawEvents[1]) > IDLE_THRESHOLD
  /\ call # NoCall /\ call.index = 3
  /\ call.prev = rawEvents[2]
  /\ call.kind = "return"

\* a context value as the deduplication compares it
Normalized(value) == Trim(ToLowerCase(value))

\* the values of the accumulator's contexts that are the first of their
\* normalized spelling among the non-empty ones, in the order they came
FirstOccurrences(ctxs) ==
  LET first(k) ==
        /\ ctxs[k].value # <<>>
        /\ \A j \in 1..(k - 1) :
             ctxs[j].value # <<>> => Normalized(ctxs[j].value) # Normalized(ctxs[k].value)
      RECURSIVE From(_)
      From(k) ==
        IF k > Len(ctxs) THEN <<>>
        ELSE IF first(k) THEN <<ctxs[k].value>> \o From(k + 1)
        ELSE From(k + 1)
  IN  From(1)

\* C33: the context list of a session has at most 10 entries, no two of
\* them equal after trimming and lower-casing, and it is the first 10 of the
\* accumulator's contexts deduplicated in the order of their first
\* occurrence (deduplicated first, cut to 10 afterwards).
C33_ContextList ==
  contexts.finalized =>
    LET list == contexts.list
        all == FirstOccurrences(contexts.session)
    IN  /\ Len(list) <= 10
        /\ \A i, j \in 1..Len(list) :
             Normalized(list[i]) = Normalized(list[j]) => i = j
        /\ Len(list) = IF Len(all) < 10 THEN Len(all) ELSE 10
        /\ list = SubSeq(all, 1, Len(list))

\* eleven different contexts among twelve, one of them a repetition in
\* upper case: the list is the first ten
C33_Witness ==
  /\ contexts.finalized
  /\ Len(contexts.session) = 12
  /\ Len(FirstOccurrences(contexts.session)) = 11
  /\ Len(contexts.list) = 10
  /\ \E k \in 1..12 : contexts.session[k].value \in {<<"C">>, <<"G">>, <<"K">>}

\* C37: the queue never holds more than one job of the id of the (device,
\* date) (the model keeps one state per id); a call that finds such a job
\* adds nothing and returns null; and of two calls that run concurrently at
\* most one returns a job id.
C37_Step ==
  \A c \in DOMAIN callers :
    /\ (callers[c].pc # "got" /\ callers'[c] # callers[c] /\ queue[0] # "none") =>
         (callers'[c].pc = "returned" /\ callers'[c].returned = <<>> /\ queue' = queue)
    /\ (callers[c].pc = "got" /\ callers'[c].pc = "returned"
          /\ callers'[c].returned # <<>>) =>
         ~callers[c].meanwhile

C37_DeduplicatedQueueing == [][C37_Step]_vars

\* what the queue does guarantee: a call whose getJob finds the job adds
\* nothing and returns null, and an add that finds the job leaves it as it is
C37_WeakStep ==
  /\ \A c \in DOMAIN callers :
       (callers[c].pc # "got" /\ callers'[c] # callers[c] /\ queue[0] # "none") =>
         (callers'[c].pc = "returned" /\ callers'[c].returned = <<>> /\ queue' = queue)
  /\ \A c \in DOMAIN callers :
       (callers[c].pc = "got" /\ callers'[c].pc = "returned" /\ queue[0] # "none") =>
         queue' = queue

C37_FoundJobAddsNothing == [][C37_WeakStep]_vars

\* C38: daily_sessions holds at most one row for the (deviceId, date), and
\* the row is the result of one run, written by the job it names.
C38_OneRowPerDay ==
  /\ Len(dailySessions) <= 1
  /\ \A k \in DOMAIN dailySessions :
       dailySessions[k].events <= ingested /\ dailySessions[k].jobId \in DOMAIN queue

====
